---- MODULE Spec2Model ----
(***************************************************************************)
(* Model of the position-estimation engine of smo-tracker:                 *)
(*   js/dataHandler.js  - historical store and time-window aggregation     *)
(*   js/lateration.js   - lateration solver, result cache, Kalman filter   *)
(*   js/timeControls.js - timestamp navigation                             *)
(*   js/app.js          - load path and the handlers that drive the engine *)
(*                                                                         *)
(* NUMBERS.  A JavaScript number is modelled as a fixed-point integer      *)
(* (value * Unit, rounded to nearest) or one of three non-finite values    *)
(* NaN, PInf, NInf.  A finite result whose magnitude exceeds FloatMax      *)
(* becomes an infinity, as a double beyond Number.MAX_VALUE does; the      *)
(* model's numbers are narrower than a double, so the overflow is reached  *)
(* with smaller operands than in the program.  Geographic coordinates are  *)
(* held in micro-degrees, everything else in 1/Unit.                       *)
(***************************************************************************)
EXTENDS Integers, Sequences, FiniteSets, TLC

\* ------------------------------------------------------------------------
\* Numbers
\* ------------------------------------------------------------------------

\* Fixed-point scale of metres, weights, gains and covariances.
Unit == 100 * 100

\* Largest finite magnitude of a model number (Number.MAX_VALUE).
FloatMax == 2^29 - 1

PInf == FloatMax + 1
NInf == 0 - (FloatMax + 1)
NaN == FloatMax + 2

IsNaN(a) == a = NaN
IsInf(a) == a = PInf \/ a = NInf
IsFin(a) == a # NaN /\ a # PInf /\ a # NInf

Abs(n) == IF n < 0 THEN 0 - n ELSE n
Sgn(n) == IF n < 0 THEN 0 - 1 ELSE IF n > 0 THEN 1 ELSE 0

\* A finite magnitude m with sign s, saturated to an infinity.
Sat(s, m) == IF m > FloatMax THEN (IF s < 0 THEN NInf ELSE PInf) ELSE s * m

FNeg(a) == IF IsNaN(a) THEN NaN ELSE 0 - a

FAdd(a, b) ==
    IF IsNaN(a) \/ IsNaN(b) THEN NaN
    ELSE IF IsInf(a) THEN (IF IsInf(b) /\ a # b THEN NaN ELSE a)
    ELSE IF IsInf(b) THEN b
    ELSE Sat(Sgn(a + b), Abs(a + b))

FSub(a, b) == FAdd(a, FNeg(b))

\* round(m * n / d) for magnitudes m, n >= 0, d > 0, n * d within range;
\* the quotient part may exceed the range, which the caller checks first.
MulDivMag(m, n, d) == (m \div d) * n + (((m % d) * n) + (d \div 2)) \div d

\* a * n / d for a model number a and positive integers n, d.
FScale(a, n, d) ==
    IF ~IsFin(a) THEN a
    ELSE IF (Abs(a) \div d) > (FloatMax \div n) THEN Sat(Sgn(a), FloatMax + 1)
    ELSE Sat(Sgn(a), MulDivMag(Abs(a), n, d))

\* Product of two fixed-point magnitudes, split so that no partial product
\* leaves the integer range.
MulMag(m, n) ==
    LET mh == m \div Unit
        ml == m % Unit
        nh == n \div Unit
        nl == n % Unit
    IN  IF mh # 0 /\ nh # 0 /\ mh > (FloatMax \div Unit) \div nh THEN FloatMax + 1
        ELSE mh * nh * Unit + mh * nl + ml * nh + (ml * nl + Unit \div 2) \div Unit

FMul(a, b) ==
    IF IsNaN(a) \/ IsNaN(b) THEN NaN
    ELSE IF IsInf(a) \/ IsInf(b)
         THEN (IF a = 0 \/ b = 0 THEN NaN
               ELSE IF Sgn(a) * Sgn(b) < 0 THEN NInf ELSE PInf)
    ELSE Sat(Sgn(a) * Sgn(b), MulMag(Abs(a), Abs(b)))

\* Quotient of two fixed-point magnitudes (n > 0), digit by digit.
RECURSIVE DivDigits(_, _, _, _)
DivDigits(q, r, n, k) ==
    IF k = 0 THEN (IF 2 * r >= n THEN q + 1 ELSE q)
    ELSE IF q > FloatMax \div 10 THEN FloatMax + 1
    ELSE DivDigits(q * 10 + (r * 10) \div n, (r * 10) % n, n, k - 1)

\* Operands above 2^27 are halved together so that r * 10 stays in range.
DivMag(m, n) ==
    LET big == n > 2^27
        mm == IF big THEN m \div 4 ELSE m
        nn == IF big THEN n \div 4 ELSE n
    IN  DivDigits(mm \div nn, mm % nn, nn, 4)

FDiv(a, b) ==
    IF IsNaN(a) \/ IsNaN(b) THEN NaN
    ELSE IF IsInf(a) THEN (IF IsInf(b) THEN NaN
                           ELSE IF Sgn(a) * (IF b < 0 THEN 0 - 1 ELSE 1) < 0 THEN NInf ELSE PInf)
    ELSE IF IsInf(b) THEN 0
    ELSE IF b = 0 THEN (IF a = 0 THEN NaN ELSE IF a < 0 THEN NInf ELSE PInf)
    ELSE Sat(Sgn(a) * Sgn(b), DivMag(Abs(a), Abs(b)))

\* Comparisons: every comparison with NaN is false.
FLt(a, b) == ~IsNaN(a) /\ ~IsNaN(b) /\ a < b
FGt(a, b) == FLt(b, a)
FLe(a, b) == ~IsNaN(a) /\ ~IsNaN(b) /\ a <= b
FGe(a, b) == FLe(b, a)

FAbs(a) == IF IsNaN(a) THEN NaN ELSE Abs(a)

\* Math.max / Math.min: NaN if either argument is NaN.
FMax(a, b) == IF IsNaN(a) \/ IsNaN(b) THEN NaN ELSE IF a > b THEN a ELSE b
FMin(a, b) == IF IsNaN(a) \/ IsNaN(b) THEN NaN ELSE IF a < b THEN a ELSE b

\* Integer square root (largest r with r * r <= n), by bisection.
RECURSIVE ISqrtBetween(_, _, _)
ISqrtBetween(n, lo, hi) ==
    IF lo >= hi THEN lo
    ELSE LET mid == (lo + hi + 1) \div 2
         IN  IF mid <= n \div mid THEN ISqrtBetween(n, mid, hi)
             ELSE ISqrtBetween(n, lo, mid - 1)

ISqrt(n) == IF n <= 0 THEN 0 ELSE ISqrtBetween(n, 1, 32768)

\* Math.sqrt on fixed-point: sqrt(a / Unit) * Unit = sqrt(a * Unit).
FSqrt(a) ==
    IF IsNaN(a) \/ a < 0 THEN NaN
    ELSE IF a = PInf THEN PInf
    ELSE IF a <= FloatMax \div Unit THEN ISqrt(a * Unit)
    ELSE ISqrt(a) * ISqrt(Unit)

\* The fixed-point image of an integer.
Fx(n) == n * Unit


\* ------------------------------------------------------------------------
\* Strings.  A string is the sequence of its character codes.
\* ------------------------------------------------------------------------

\* ':' and '_', the separators of getCacheKey and of readingKey.
Colon == <<58>>
Underscore == <<95>>

\* a < b in the order of Array.prototype.sort() (by code unit).
RECURSIVE StrLess(_, _)
StrLess(a, b) ==
    IF b = <<>> THEN FALSE
    ELSE IF a = <<>> THEN TRUE
    ELSE IF Head(a) # Head(b) THEN Head(a) < Head(b)
    ELSE StrLess(Tail(a), Tail(b))

\* Array.from(set).sort()
RECURSIVE SortStrings(_)
SortStrings(S) ==
    IF S = {} THEN <<>>
    ELSE LET m == CHOOSE a \in S : \A b \in S \ {a} : StrLess(a, b)
         IN  <<m>> \o SortStrings(S \ {m})

\* new Date(ts).getTime(): a timestamp string is two digits of seconds.
DateMs(ts) == ((ts[1] - 48) * 10 + (ts[2] - 48)) * 1000

\* The absent value (null / undefined) and maps.
Null == [null |-> TRUE]
EmptyMap == [k \in {} |-> Null]
MapSet(m, k, v) == [j \in (DOMAIN m) \cup {k} |-> IF j = k THEN v ELSE m[j]]

\* ------------------------------------------------------------------------
\* Trigonometry (Bhaskara's approximation on whole degrees)
\* ------------------------------------------------------------------------

SinDeg(a) ==
    LET h == a % 180
        p == h * (180 - h)
        s == (4 * p * Unit) \div (40500 - p)
    IN  IF (a % 360) < 180 THEN s ELSE 0 - s

CosDeg(a) == SinDeg((a + 90) % 360)

\* Math.cos(lat * Math.PI / 180) for a latitude in micro-degrees.
CosLat(lat) == IF ~IsFin(lat) THEN NaN ELSE CosDeg(Abs(lat) \div 1000000)

\* ------------------------------------------------------------------------
\* js/lateration.js: geo-projection
\* ------------------------------------------------------------------------

earthRadius == 6371000

\* Math.PI * 10^4
PiE4 == 31416

\* Metres per degree of latitude: earthRadius * Math.PI / 180.
MetersPerDegree == ((earthRadius \div 180) * PiE4) \div 10000

\* A difference of micro-degrees as metres, and back.
DegToMeters(d) == FScale(d, MetersPerDegree, 100)
MetersToDeg(m) == FScale(m, 100, MetersPerDegree)

gpsToMeters(lat, lng, refLat, refLng) ==
    [x |-> FMul(DegToMeters(FSub(lng, refLng)), CosLat(refLat)),
     y |-> DegToMeters(FSub(lat, refLat))]

\* A variant that leaves out the division by cos(refLat).
metersToGps_NoCos(x, y, refLat, refLng) ==
    [lat |-> FAdd(refLat, MetersToDeg(y)),
     lng |-> FAdd(refLng, MetersToDeg(x))]

metersToGps(x, y, refLat, refLng) ==
    [lat |-> FAdd(refLat, MetersToDeg(y)),
     lng |-> FAdd(refLng, MetersToDeg(FDiv(x, CosLat(refLat))))]

distance(p1, p2) ==
    FSqrt(FAdd(FMul(FSub(p2.x, p1.x), FSub(p2.x, p1.x)),
               FMul(FSub(p2.y, p1.y), FSub(p2.y, p1.y))))

\* ------------------------------------------------------------------------
\* js/dataHandler.js: the historical store
\* ------------------------------------------------------------------------

\* The set of elements of a sequence.
Range(s) == {s[i] : i \in DOMAIN s}

\* processData: the sorted unique timestamps of the validated entries.
SortedTimestamps(data) == SortStrings({data[i].timestamp : i \in DOMAIN data})

\* processData: the entries of each timestamp, in file order.
GroupByTimestamp(data) ==
    [ts \in {data[i].timestamp : i \in DOMAIN data} |->
        SelectSeq(data, LAMBDA e : e.timestamp = ts)]

\* setTimeWindow: Math.max(0, windowMs)
ClampWindow(windowMs) == IF windowMs > 0 THEN windowMs ELSE 0

\* The readings of one entry, in the order of entry.devices, each as the
\* observation getDevicesInTimeWindow builds from it.
EntryReadings(entry, ts, centerTime) ==
    [i \in DOMAIN entry.devices |->
        [key |-> entry.device_key \o Underscore \o entry.devices[i].mac_hashed,
         mac |-> entry.devices[i].mac_hashed,
         obs |-> [sensor_id |-> entry.device_key,
                  distance |-> entry.devices[i].distance,
                  rssi |-> entry.devices[i].rssi,
                  sensor_lat |-> entry.gps[1],
                  sensor_lng |-> entry.gps[2],
                  original_timestamp |-> ts,
                  time_offset_ms |-> DateMs(ts) - centerTime]]]

RECURSIVE EntriesReadings(_, _, _)
EntriesReadings(entries, ts, centerTime) ==
    IF entries = <<>> THEN <<>>
    ELSE EntryReadings(Head(entries), ts, centerTime)
         \o EntriesReadings(Tail(entries), ts, centerTime)

\* A variant with exclusive window bounds.
InTimeWindow_Exclusive(tsTime, centerTime, W) ==
    tsTime > centerTime - W /\ tsTime < centerTime + W

\* tsTime >= windowStart && tsTime <= windowEnd
InTimeWindow(tsTime, centerTime, W) ==
    tsTime >= centerTime - W /\ tsTime <= centerTime + W

\* The walk of getDevicesInTimeWindow: every reading of every stored
\* timestamp inside [centerTime - W, centerTime + W], in walk order.
RECURSIVE WindowReadings(_, _, _, _)
WindowReadings(tss, byTs, centerTime, W) ==
    IF tss = <<>> THEN <<>>
    ELSE LET ts == Head(tss)
             tsTime == DateMs(ts)
             here == IF InTimeWindow(tsTime, centerTime, W)
                     THEN EntriesReadings(byTs[ts], ts, centerTime)
                     ELSE <<>>
         IN  here \o WindowReadings(Tail(tss), byTs, centerTime, W)

\* A variant in which the last reading of a pair replaces the one kept.
PushReading_LastSeen(acc, r) ==
    [processedReadings |-> acc.processedReadings \cup {r.key},
     order |-> IF r.mac \in DOMAIN acc.lists THEN acc.order
               ELSE Append(acc.order, r.mac),
     lists |-> MapSet(acc.lists, r.mac,
                      IF r.mac \notin DOMAIN acc.lists THEN <<r.obs>>
                      ELSE IF r.key \in acc.processedReadings
                      THEN [i \in DOMAIN acc.lists[r.mac] |->
                               IF acc.lists[r.mac][i].sensor_id = r.obs.sensor_id
                               THEN r.obs ELSE acc.lists[r.mac][i]]
                      ELSE Append(acc.lists[r.mac], r.obs))]

\* A variant that keeps every reading, also of a pair already seen.
PushReading_NoDedupe(acc, r) ==
    [processedReadings |-> acc.processedReadings \cup {r.key},
     order |-> IF r.mac \in DOMAIN acc.lists THEN acc.order
               ELSE Append(acc.order, r.mac),
     lists |-> MapSet(acc.lists, r.mac,
                      IF r.mac \in DOMAIN acc.lists
                      THEN Append(acc.lists[r.mac], r.obs)
                      ELSE <<r.obs>>)]

\* deviceMap after one reading: a Map in insertion order, held as the
\* sequence of its keys and the observation list of each key.
PushReading(acc, r) ==
    IF r.key \in acc.processedReadings THEN acc
    ELSE [processedReadings |-> acc.processedReadings \cup {r.key},
          order |-> IF r.mac \in DOMAIN acc.lists THEN acc.order
                    ELSE Append(acc.order, r.mac),
          lists |-> MapSet(acc.lists, r.mac,
                           IF r.mac \in DOMAIN acc.lists
                           THEN Append(acc.lists[r.mac], r.obs)
                           ELSE <<r.obs>>)]

RECURSIVE FoldReadings(_, _)
FoldReadings(acc, rs) ==
    IF rs = <<>> THEN acc ELSE FoldReadings(PushReading(acc, Head(rs)), Tail(rs))

getDevicesInTimeWindow(tss, byTs, W, timestamp) ==
    LET acc == FoldReadings([processedReadings |-> {}, order |-> <<>>,
                             lists |-> EmptyMap],
                            WindowReadings(tss, byTs, DateMs(timestamp), W))
    IN  [order |-> acc.order, lists |-> acc.lists]

\* ------------------------------------------------------------------------
\* js/lateration.js: the solver
\* ------------------------------------------------------------------------

\* The sensor range bound of the filter of trilaterate, in metres.
MaxRange == 200

\* 1e-10, the singularity threshold: it lies below the resolution of the
\* model's numbers, whose smallest positive value stands for it.
DetEps == 1

\* A JavaScript value used as a condition: 0 and NaN are falsy.
Truthy(v) == v # 0 /\ ~IsNaN(v)

\* The string hash of trilaterate on a 32-bit integer held as its two
\* 16-bit halves: hash = ((hash << 5) - hash) + code; hash = hash & hash.
HashStep(h, code) ==
    LET lo == 31 * h[2] + code
        hi == 31 * h[1] + lo \div 65536
    IN  <<hi % 65536, lo % 65536>>

RECURSIVE HashFrom(_, _)
HashFrom(h, str) ==
    IF str = <<>> THEN h ELSE HashFrom(HashStep(h, Head(str)), Tail(str))

\* Math.abs(hash) % 360
AbsMod360(h) ==
    IF h[1] < 32768 THEN (h[1] * 65536 + h[2]) % 360
    ELSE (((65535 - h[1]) % 360) * (65536 % 360) + (65536 - h[2])) % 360

HashAngle(str) == AbsMod360(HashFrom(<<0, 0>>, str))

\* The bearing of the single-sensor case, in degrees: 0 unless the
\* observation itself carries a mac_hashed field.
SingleSensorAngle(sensor) ==
    IF "mac_hashed" \in DOMAIN sensor /\ sensor.mac_hashed # <<>>
    THEN HashAngle(sensor.mac_hashed)
    ELSE 0

\* A variant whose top class starts one sensor later.
getQualityLevel_OffByOne(sensorCount) ==
    IF sensorCount > 3 THEN "high"
    ELSE IF sensorCount = 2 THEN "medium"
    ELSE "low"

getQualityLevel(sensorCount) ==
    IF sensorCount >= 3 THEN "high"
    ELSE IF sensorCount = 2 THEN "medium"
    ELSE "low"

\* 1.0, 0.5 and 0.2
getConfidenceFromSensorCount(sensorCount) ==
    IF sensorCount >= 3 THEN Unit
    ELSE IF sensorCount = 2 THEN Unit \div 2
    ELSE Unit \div 5

\* reduce((sum, o) => sum + f(o), 0)
RECURSIVE SumOver(_, _)
SumOver(s, i) == IF i = 0 THEN 0 ELSE FAdd(SumOver(s, i - 1), s[i])

\* sum / n for a count n
FDivCount(a, n) == FScale(a, 1, n)

\* A variant that extrapolates without bound.
ClampT_Unbounded(t0) == t0

\* Math.max(-0.5, Math.min(1.5, t))
ClampT(t0) == FMax(0 - (Unit \div 2), FMin(Unit + Unit \div 2, t0))

estimateTwoSensorPosition(points) ==
    LET p1 == points[1]
        p2 == points[2]
        dx == FSub(p2.pos.x, p1.pos.x)
        dy == FSub(p2.pos.y, p1.pos.y)
        sensorDist == FSqrt(FAdd(FMul(dx, dx), FMul(dy, dy)))
        d1 == p1.distance
        d2 == p2.distance
        t0 == FDiv(FSub(FAdd(FMul(sensorDist, sensorDist), FMul(d1, d1)), FMul(d2, d2)),
                   FMul(Fx(2), FMul(sensorDist, sensorDist)))
        t == ClampT(t0)
    IN  IF sensorDist = 0 THEN [x |-> p1.pos.x, y |-> p1.pos.y]
        ELSE [x |-> FAdd(p1.pos.x, FMul(t, dx)),
              y |-> FAdd(p1.pos.y, FMul(t, dy)),
              variance |-> FAbs(FSub(FAdd(d1, d2), sensorDist))]

\* 10^(r/20) for r = 0..19
Pow10Twentieth ==
    <<10000, 11220, 12589, 14125, 15849, 17783, 19953, 22387, 25119, 28184,
      31623, 35481, 39811, 44668, 50119, 56234, 63096, 70795, 79433, 89125>>

\* Math.pow(10, (rssi + 100) / 20)
RssiWeight(rssi) ==
    LET e == rssi + 100
        q == e \div 20
        m == Pow10Twentieth[(e % 20) + 1]
    IN  IF q > 8 THEN PInf
        ELSE IF q < 0 - 8 THEN 0
        ELSE IF q >= 0 THEN FScale(m, 10^q, 1)
        ELSE FScale(m, 1, 10^(0 - q))

\* The steps of solveWeightedLeastSquares, innermost first.

\* A'WA, the 2x2 matrix of the weighted normal equations.
NormalMatrix(A, w) ==
    <<<<SumOver([i \in 1..Len(A) |-> FMul(FMul(w[i], A[i][1]), A[i][1])], Len(A)),
        SumOver([i \in 1..Len(A) |-> FMul(FMul(w[i], A[i][1]), A[i][2])], Len(A))>>,
      <<SumOver([i \in 1..Len(A) |-> FMul(FMul(w[i], A[i][2]), A[i][1])], Len(A)),
        SumOver([i \in 1..Len(A) |-> FMul(FMul(w[i], A[i][2]), A[i][2])], Len(A))>>>>

\* A'Wb
NormalRhs(A, b, w) ==
    <<SumOver([i \in 1..Len(A) |-> FMul(FMul(w[i], A[i][1]), b[i])], Len(A)),
      SumOver([i \in 1..Len(A) |-> FMul(FMul(w[i], A[i][2]), b[i])], Len(A))>>

\* ata00 * ata11 - ata01 * ata10
NormalDet(N) == FSub(FMul(N[1][1], N[2][2]), FMul(N[1][2], N[2][1]))

\* A variant that applies the direct formula whatever the determinant.
SolveNormal_NoGuard(A, N, atb, det) ==
    [x |-> FDiv(FSub(FMul(N[2][2], atb[1]), FMul(N[1][2], atb[2])), det),
     y |-> FDiv(FSub(FMul(N[1][1], atb[2]), FMul(N[2][1], atb[1])), det)]

\* The direct formula, or for a singular matrix the mean of the rows of A.
SolveNormal(A, N, atb, det) ==
    IF FLt(FAbs(det), DetEps)
    THEN [x |-> FDivCount(SumOver([i \in 1..Len(A) |-> A[i][1]], Len(A)), Len(A)),
          y |-> FDivCount(SumOver([i \in 1..Len(A) |-> A[i][2]], Len(A)), Len(A))]
    ELSE [x |-> FDiv(FSub(FMul(N[2][2], atb[1]), FMul(N[1][2], atb[2])), det),
          y |-> FDiv(FSub(FMul(N[1][1], atb[2]), FMul(N[2][1], atb[1])), det)]

SolveWithMatrix(A, N, atb) == SolveNormal(A, N, atb, NormalDet(N))

solveWeightedLeastSquares(A, b, w) ==
    SolveWithMatrix(A, NormalMatrix(A, w), NormalRhs(A, b, w))

\* A variant whose rows lack the factor 2.
DesignMatrix_NoFactor(points) ==
    [i \in 1..(Len(points) - 1) |->
        <<FSub(points[i + 1].pos.x, points[1].pos.x),
          FSub(points[i + 1].pos.y, points[1].pos.y)>>]

\* The rows 2 (x_i - x_1), 2 (y_i - y_1) of the linear system, the first
\* point being the reference.
DesignMatrix(points) ==
    [i \in 1..(Len(points) - 1) |->
        <<FMul(Fx(2), FSub(points[i + 1].pos.x, points[1].pos.x)),
          FMul(Fx(2), FSub(points[i + 1].pos.y, points[1].pos.y))>>]

\* The weight of each row: 1 / (distance + 1), times the rssi weight when
\* rssi is truthy.
Weights(points) ==
    [i \in 1..(Len(points) - 1) |->
        FMul(FDiv(Fx(1), FAdd(points[i + 1].distance, Fx(1))),
             IF Truthy(points[i + 1].rssi) THEN RssiWeight(points[i + 1].rssi)
             ELSE Fx(1))]

\* The right-hand sides d_1^2 - d_i^2 + x_i^2 - x_1^2 + y_i^2 - y_1^2.
RightHandSide(points) ==
    [i \in 1..(Len(points) - 1) |->
        LET ref == points[1]
            pi == points[i + 1]
        IN  FSub(FAdd(FSub(FAdd(FSub(FMul(ref.distance, ref.distance),
                                     FMul(pi.distance, pi.distance)),
                                FMul(pi.pos.x, pi.pos.x)),
                           FMul(ref.pos.x, ref.pos.x)),
                      FMul(pi.pos.y, pi.pos.y)),
                 FMul(ref.pos.y, ref.pos.y))]

estimateMultiSensorPosition(points) ==
    LET n == Len(points)
        \* The residual of one point at the solution.
        Residual(result, p) == FSub(distance(result, p.pos), p.distance)
        Square(e) == FMul(e, e)
        \* The returned position for the solution of the system.
        Estimate(result) ==
            [x |-> result.x, y |-> result.y,
             variance |-> FSqrt(FDivCount(
                 SumOver([i \in 1..n |-> Square(Residual(result, points[i]))], n), n))]
    IN  Estimate(solveWeightedLeastSquares(DesignMatrix(points),
                                           RightHandSide(points),
                                           Weights(points)))

calculateResidual(estimatedPos, points) ==
    LET n == Len(points)
        totalError == SumOver([i \in 1..n |->
                        FAbs(FSub(distance(estimatedPos, points[i].pos),
                                  points[i].distance))], n)
    IN  FDivCount(totalError, n)

\* observations.filter(o => o.distance > 0 && o.distance < 200)
\* A variant whose distance bounds are inclusive.
ValidObs_Inclusive(observations) ==
    SelectSeq(observations,
              LAMBDA o : FGe(o.distance, 0) /\ FLe(o.distance, Fx(MaxRange)))

ValidObs(observations) ==
    SelectSeq(observations,
              LAMBDA o : FGt(o.distance, 0) /\ FLt(o.distance, Fx(MaxRange)))

\* The steps of trilaterate, innermost first.

\* The returned record: position, quality and variance
\* (estimatedPos.variance || residual).
TrilaterateResult(validObs, gpsResult, estimatedPos, residual) ==
    [lat |-> gpsResult.lat,
     lng |-> gpsResult.lng,
     qualityLevel |-> getQualityLevel(Len(validObs)),
     sensorCount |-> Len(validObs),
     observations |-> validObs,
     confidence |-> getConfidenceFromSensorCount(Len(validObs)),
     variance |-> IF "variance" \in DOMAIN estimatedPos
                     /\ Truthy(estimatedPos.variance)
                  THEN estimatedPos.variance
                  ELSE residual]

\* Two or more sensors: the estimate converted back to GPS, with its
\* residual.
TrilaterateLocated(validObs, refLat, refLng, points, estimatedPos) ==
    TrilaterateResult(validObs,
                      metersToGps(estimatedPos.x, estimatedPos.y, refLat, refLng),
                      estimatedPos,
                      calculateResidual(estimatedPos, points))

\* The estimator for two and for three or more points.
EstimatePosition(points) ==
    IF Len(points) = 2 THEN estimateTwoSensorPosition(points)
    ELSE estimateMultiSensorPosition(points)

\* Two or more sensors: the estimate on the projected points.
TrilateratePoints(validObs, refLat, refLng, points) ==
    TrilaterateLocated(validObs, refLat, refLng, points, EstimatePosition(points))

\* validObs.map(o => ({ ...o, pos: gpsToMeters(...) })); of the spread
\* fields the solver reads distance and rssi.
ProjectPoints(validObs, refLat, refLng) ==
    [i \in 1..Len(validObs) |->
        [pos |-> gpsToMeters(validObs[i].sensor_lat, validObs[i].sensor_lng,
                             refLat, refLng),
         distance |-> validObs[i].distance,
         rssi |-> validObs[i].rssi]]

\* Two or more sensors: the sensors projected around the reference point.
TrilaterateAround(validObs, refLat, refLng) ==
    TrilateratePoints(validObs, refLat, refLng,
                      ProjectPoints(validObs, refLat, refLng))

\* One sensor: the point of its circle at the given bearing.
TrilaterateSingle(validObs, sensor, angle) ==
    TrilaterateResult(validObs,
                      [lat |-> FAdd(sensor.sensor_lat,
                                    MetersToDeg(FMul(sensor.distance, CosDeg(angle)))),
                       lng |-> FAdd(sensor.sensor_lng,
                                    MetersToDeg(FDiv(FMul(sensor.distance, SinDeg(angle)),
                                                     CosLat(sensor.sensor_lat))))],
                      [x |-> FMul(sensor.distance, SinDeg(angle)),
                       y |-> FMul(sensor.distance, CosDeg(angle)),
                       variance |-> sensor.distance],
                      sensor.distance)

\* The mean of a field over the valid observations (the reference point).
MeanOf(validObs, field) ==
    FDivCount(SumOver([i \in 1..Len(validObs) |-> validObs[i][field]],
                      Len(validObs)), Len(validObs))

\* The dispatch on the number of valid observations.
TrilaterateValid(validObs) ==
    IF Len(validObs) < 1 THEN Null
    ELSE IF Len(validObs) = 1
         THEN TrilaterateSingle(validObs, validObs[1], SingleSensorAngle(validObs[1]))
    ELSE TrilaterateAround(validObs, MeanOf(validObs, "sensor_lat"),
                           MeanOf(validObs, "sensor_lng"))

trilaterate(observations) == TrilaterateValid(ValidObs(observations))

\* ------------------------------------------------------------------------
\* js/lateration.js: the Kalman filter
\* ------------------------------------------------------------------------

\* KALMAN_CONFIG: processNoise 0.5, measurementNoise 2.0, dt 1.0
processNoise == Unit \div 2
measurementNoise == 2 * Unit
KalmanDt == Unit

\* The variance computeAllPositions passes when result.variance is falsy.
FallbackVariance == 5

\* 1e-10 as the singularity threshold of the innovation covariance; as
\* DetEps, the smallest positive model number stands for it.
KalmanDetEps == 1

\* A variant whose initial velocity is 1 m per step in x and y.
createKalmanState_Moving(px, py) ==
    [x |-> <<px, py, Fx(1), Fx(1)>>,
     P |-> <<<<Fx(100), 0, 0, 0>>,
             <<0, Fx(100), 0, 0>>,
             <<0, 0, Fx(10), 0>>,
             <<0, 0, 0, Fx(10)>>>>]

\* The state of a device: state vector, covariance, anchor.  (lastUpdate,
\* a wall-clock stamp nothing reads, is left out.)
createKalmanState(px, py) ==
    [x |-> <<px, py, 0, 0>>,
     P |-> <<<<Fx(100), 0, 0, 0>>,
             <<0, Fx(100), 0, 0>>,
             <<0, 0, Fx(10), 0>>,
             <<0, 0, 0, Fx(10)>>>>]

\* Sums and products of several model numbers.
F3(a, b, c) == FAdd(FAdd(a, b), c)
F4(a, b, c, d) == FAdd(FAdd(FAdd(a, b), c), d)
M3(a, b, c) == FMul(FMul(a, b), c)

kalmanPredict(state, dt) ==
    LET sx == state.x
        P == state.P
        q == processNoise
    IN  [x |-> <<FAdd(sx[1], FMul(sx[3], dt)),
                 FAdd(sx[2], FMul(sx[4], dt)),
                 sx[3],
                 sx[4]>>,
         P |-> <<
           <<F4(P[1][1], M3(Fx(2), dt, P[1][3]), M3(dt, dt, P[3][3]), q),
             F4(P[1][2], FMul(dt, P[1][4]), FMul(dt, P[3][2]), M3(dt, dt, P[3][4])),
             FAdd(P[1][3], FMul(dt, P[3][3])),
             FAdd(P[1][4], FMul(dt, P[3][4]))>>,
           <<F4(P[2][1], FMul(dt, P[2][3]), FMul(dt, P[4][1]), M3(dt, dt, P[4][3])),
             F4(P[2][2], M3(Fx(2), dt, P[2][4]), M3(dt, dt, P[4][4]), q),
             FAdd(P[2][3], FMul(dt, P[4][3])),
             FAdd(P[2][4], FMul(dt, P[4][4]))>>,
           <<FAdd(P[3][1], FMul(dt, P[3][3])),
             FAdd(P[3][2], FMul(dt, P[3][4])),
             FAdd(P[3][3], q),
             P[3][4]>>,
           <<FAdd(P[4][1], FMul(dt, P[4][3])),
             FAdd(P[4][2], FMul(dt, P[4][4])),
             P[4][3],
             FAdd(P[4][4], q)>> >>]

\* The innovation covariance S = H P H' + R and its determinant.
InnovationCov(P, r) ==
    <<<<FAdd(P[1][1], r), P[1][2]>>, <<P[2][1], FAdd(P[2][2], r)>>>>

InnovationDet(S) == FSub(FMul(S[1][1], S[2][2]), FMul(S[1][2], S[2][1]))

\* The steps of kalmanUpdate, innermost first.

\* x + K y and (I - K H) P for the gain K and the innovation y.
KalmanCorrect(px, P, K, y) ==
    [x |-> [i \in 1..4 |-> F3(px[i], FMul(K[i][1], y[1]), FMul(K[i][2], y[2]))],
     P |-> <<
       <<FSub(FMul(FSub(Fx(1), K[1][1]), P[1][1]), FMul(K[1][2], P[2][1])),
         FSub(FMul(FSub(Fx(1), K[1][1]), P[1][2]), FMul(K[1][2], P[2][2])),
         FSub(FSub(P[1][3], FMul(K[1][1], P[1][3])), FMul(K[1][2], P[2][3])),
         FSub(FSub(P[1][4], FMul(K[1][1], P[1][4])), FMul(K[1][2], P[2][4]))>>,
       <<FAdd(FMul(FNeg(K[2][1]), P[1][1]), FMul(FSub(Fx(1), K[2][2]), P[2][1])),
         FAdd(FMul(FNeg(K[2][1]), P[1][2]), FMul(FSub(Fx(1), K[2][2]), P[2][2])),
         FSub(FSub(P[2][3], FMul(K[2][1], P[1][3])), FMul(K[2][2], P[2][3])),
         FSub(FSub(P[2][4], FMul(K[2][1], P[1][4])), FMul(K[2][2], P[2][4]))>>,
       <<FAdd(FSub(FMul(FNeg(K[3][1]), P[1][1]), FMul(K[3][2], P[2][1])), P[3][1]),
         FAdd(FSub(FMul(FNeg(K[3][1]), P[1][2]), FMul(K[3][2], P[2][2])), P[3][2]),
         FSub(FSub(P[3][3], FMul(K[3][1], P[1][3])), FMul(K[3][2], P[2][3])),
         FSub(FSub(P[3][4], FMul(K[3][1], P[1][4])), FMul(K[3][2], P[2][4]))>>,
       <<FAdd(FSub(FMul(FNeg(K[4][1]), P[1][1]), FMul(K[4][2], P[2][1])), P[4][1]),
         FAdd(FSub(FMul(FNeg(K[4][1]), P[1][2]), FMul(K[4][2], P[2][2])), P[4][2]),
         FSub(FSub(P[4][3], FMul(K[4][1], P[1][3])), FMul(K[4][2], P[2][3])),
         FSub(FSub(P[4][4], FMul(K[4][1], P[1][4])), FMul(K[4][2], P[2][4]))>> >>]

\* The gain K = P H' S^-1 for the inverse Si of the innovation covariance.
KalmanGain(P, Si) ==
    [i \in 1..4 |->
        <<FAdd(FMul(P[i][1], Si[1][1]), FMul(P[i][2], Si[2][1])),
          FAdd(FMul(P[i][1], Si[1][2]), FMul(P[i][2], Si[2][2]))>>]

\* The inverse of the 2x2 matrix S with determinant det.
InnovationInverse(S, det) ==
    <<<<FDiv(S[2][2], det), FNeg(FDiv(S[1][2], det))>>,
      <<FNeg(FDiv(S[2][1], det)), FDiv(S[1][1], det)>>>>

\* A variant without the singularity guard.
KalmanUpdateWith_NoGuard(predicted, mx, my, S, det) ==
    KalmanCorrect(predicted.x, predicted.P,
                  KalmanGain(predicted.P, InnovationInverse(S, det)),
                  <<FSub(mx, predicted.x[1]), FSub(my, predicted.x[2])>>)

\* The singularity guard: a (near-)singular S returns the prediction.
KalmanUpdateWith(predicted, mx, my, S, det) ==
    IF FLt(FAbs(det), KalmanDetEps) THEN predicted
    ELSE KalmanCorrect(predicted.x, predicted.P,
                       KalmanGain(predicted.P, InnovationInverse(S, det)),
                       <<FSub(mx, predicted.x[1]), FSub(my, predicted.x[2])>>)

KalmanUpdateCov(predicted, mx, my, S) ==
    KalmanUpdateWith(predicted, mx, my, S, InnovationDet(S))

kalmanUpdate(predicted, mx, my, r) ==
    KalmanUpdateCov(predicted, mx, my, InnovationCov(predicted.P, r))

\* KALMAN_CONFIG.measurementNoise * (1 + quality / 10)
EffectiveNoise(quality) ==
    FMul(measurementNoise, FAdd(Fx(1), FDiv(quality, Fx(10))))

\* The steps of applyKalmanFilter, innermost first.

\* The first call of a device: a fresh state anchored at the measurement;
\* the measurement is returned unchanged.
KalmanCreate(states, deviceId, measuredLat, measuredLng, measured) ==
    [lat |-> measuredLat, lng |-> measuredLng,
     states |-> MapSet(states, deviceId,
                       createKalmanState(measured.x, measured.y)
                           @@ [refLat |-> measuredLat, refLng |-> measuredLng])]

\* A variant with one filter state shared by all devices: the update of
\* one device is stored for every device that has a state.
KalmanReturn_Shared(states, deviceId, state, updated, smoothed) ==
    [lat |-> smoothed.lat, lng |-> smoothed.lng,
     states |-> [m \in DOMAIN states |->
                    [x |-> updated.x, P |-> updated.P,
                     refLat |-> state.refLat, refLng |-> state.refLng]]]

\* The stored state (anchor kept) and the returned smoothed position.
KalmanReturn(states, deviceId, state, updated, smoothed) ==
    [lat |-> smoothed.lat, lng |-> smoothed.lng,
     states |-> MapSet(states, deviceId,
                       [x |-> updated.x, P |-> updated.P,
                        refLat |-> state.refLat, refLng |-> state.refLng])]

\* The updated position converted back to GPS around the stored anchor.
KalmanSmooth(states, deviceId, state, updated) ==
    KalmanReturn(states, deviceId, state, updated,
                 metersToGps(updated.x[1], updated.x[2],
                             state.refLat, state.refLng))

\* A variant that predicts twice, as if two intervals had passed.
KalmanFilter_TwoSteps(states, deviceId, quality, state, measured) ==
    KalmanSmooth(states, deviceId, state,
                 kalmanUpdate(kalmanPredict(kalmanPredict(state, KalmanDt), KalmanDt),
                              measured.x, measured.y, EffectiveNoise(quality)))

\* Predict and update with the measurement in the frame of the anchor.
KalmanFilter(states, deviceId, quality, state, measured) ==
    KalmanSmooth(states, deviceId, state,
                 kalmanUpdate(kalmanPredict(state, KalmanDt),
                              measured.x, measured.y, EffectiveNoise(quality)))

\* A known device: the measurement relative to the stored anchor.
KalmanExisting(states, deviceId, measuredLat, measuredLng, quality, state) ==
    KalmanFilter(states, deviceId, quality, state,
                 gpsToMeters(measuredLat, measuredLng, state.refLat, state.refLng))

\* The outcome of a filter call with the anchor of the device moved.
Reanchored(out, deviceId, lat, lng) ==
    [lat |-> out.lat, lng |-> out.lng,
     states |-> MapSet(out.states, deviceId,
                       [x |-> out.states[deviceId].x,
                        P |-> out.states[deviceId].P,
                        refLat |-> lat, refLng |-> lng])]

\* A variant that moves the anchor of the state to each new measurement.
applyKalmanFilter_Reanchor(states, deviceId, measuredLat, measuredLng, quality) ==
    Reanchored(IF deviceId \notin DOMAIN states
               THEN KalmanCreate(states, deviceId, measuredLat, measuredLng,
                                 gpsToMeters(measuredLat, measuredLng,
                                             measuredLat, measuredLng))
               ELSE KalmanExisting(states, deviceId, measuredLat, measuredLng,
                                   quality, states[deviceId]),
               deviceId, measuredLat, measuredLng)

\* applyKalmanFilter: the returned position and the state map afterwards.
applyKalmanFilter(states, deviceId, measuredLat, measuredLng, quality) ==
    IF deviceId \notin DOMAIN states
    THEN KalmanCreate(states, deviceId, measuredLat, measuredLng,
                      gpsToMeters(measuredLat, measuredLng, measuredLat, measuredLng))
    ELSE KalmanExisting(states, deviceId, measuredLat, measuredLng, quality,
                        states[deviceId])
\* ------------------------------------------------------------------------
\* js/lateration.js: the result cache and computeAllPositions
\* ------------------------------------------------------------------------

\* getCacheKey: `${timestamp}:${macHashed}`
getCacheKey(timestamp, macHashed) == timestamp \o Colon \o macHashed

\* resultCache.set(key, result); return result
CacheStore(cache, key, result) ==
    [result |-> result, cache |-> MapSet(cache, key, result)]

\* A variant that computes on every call and overwrites the entry.
getCachedOrCompute_Recompute(cache, timestamp, macHashed, observations) ==
    CacheStore(cache, getCacheKey(timestamp, macHashed), trilaterate(observations))

\* getCachedOrCompute: the result handed back and the cache afterwards.
\* A null result is stored like any other.
getCachedOrCompute(cache, timestamp, macHashed, observations) ==
    IF getCacheKey(timestamp, macHashed) \in DOMAIN cache
    THEN [result |-> cache[getCacheKey(timestamp, macHashed)], cache |-> cache]
    ELSE CacheStore(cache, getCacheKey(timestamp, macHashed),
                    trilaterate(observations))

\* The guard of computeAllPositions on a result: non-null, and neither
\* coordinate is NaN.
Emitted(result) ==
    result # Null /\ ~IsNaN(result.lat) /\ ~IsNaN(result.lng)

\* result.variance || 5
QualityArg(result) ==
    IF Truthy(result.variance) THEN result.variance ELSE Fx(FallbackVariance)

\* The body of the forEach of computeAllPositions for one device, its
\* steps innermost first.  acc holds the cache, the Kalman states and the
\* results pushed so far.

\* results.push({ macHashed, lat: finalLat, lng: finalLng, ... })
PushResult(acc, macHashed, cache, result, states, finalLat, finalLng, isSmoothed) ==
    [cache |-> cache,
     states |-> states,
     results |-> Append(acc.results,
         [macHashed |-> macHashed,
          lat |-> finalLat,
          lng |-> finalLng,
          rawLat |-> result.lat,
          rawLng |-> result.lng,
          isSmoothed |-> isSmoothed,
          qualityLevel |-> result.qualityLevel,
          sensorCount |-> result.sensorCount,
          observations |-> result.observations,
          confidence |-> result.confidence,
          variance |-> result.variance])]

\* The smoothed position is taken unless one of its coordinates is NaN.
TakeSmoothed(acc, macHashed, cache, result, smoothed) ==
    IF ~IsNaN(smoothed.lat) /\ ~IsNaN(smoothed.lng)
    THEN PushResult(acc, macHashed, cache, result, smoothed.states,
                    smoothed.lat, smoothed.lng, TRUE)
    ELSE PushResult(acc, macHashed, cache, result, smoothed.states,
                    result.lat, result.lng, FALSE)

\* A variant that smooths whatever the switch says.
HandleResult_AlwaysSmooth(acc, macHashed, enabled, got) ==
    IF ~Emitted(got.result)
    THEN [cache |-> got.cache, states |-> acc.states, results |-> acc.results]
    ELSE TakeSmoothed(acc, macHashed, got.cache, got.result,
                      applyKalmanFilter(acc.states, macHashed,
                                        got.result.lat, got.result.lng,
                                        QualityArg(got.result)))

\* The guard on the result and the Kalman branch.
HandleResult(acc, macHashed, enabled, got) ==
    IF ~Emitted(got.result)
    THEN [cache |-> got.cache, states |-> acc.states, results |-> acc.results]
    ELSE IF enabled
         THEN TakeSmoothed(acc, macHashed, got.cache, got.result,
                           applyKalmanFilter(acc.states, macHashed,
                                             got.result.lat, got.result.lng,
                                             QualityArg(got.result)))
    ELSE PushResult(acc, macHashed, got.cache, got.result, acc.states,
                    got.result.lat, got.result.lng, FALSE)

ProcessDevice(acc, timestamp, macHashed, observations, enabled) ==
    HandleResult(acc, macHashed, enabled,
                 getCachedOrCompute(acc.cache, timestamp, macHashed, observations))

RECURSIVE ForEachDevice(_, _, _, _, _)
ForEachDevice(acc, timestamp, devices, order, enabled) ==
    IF order = <<>> THEN acc
    ELSE ForEachDevice(ProcessDevice(acc, timestamp, Head(order),
                                     devices.lists[Head(order)], enabled),
                       timestamp, devices, Tail(order), enabled)

\* The outcome of computeAllPositions: the module state afterwards, the
\* returned array, and a record of the call.
CallOutcome(st, store, timestamp, devices, acc) ==
    [cache |-> acc.cache, states |-> acc.states, enabled |-> st.enabled,
     results |-> acc.results,
     call |-> [timestamp |-> timestamp,
               window |-> store.window,
               devices |-> devices,
               cachedBefore |-> DOMAIN st.cache,
               statesBefore |-> DOMAIN st.states,
               enabled |-> st.enabled,
               results |-> acc.results]]

\* devicesInWindow.forEach(...)
PositionsOf(st, store, timestamp, devices) ==
    CallOutcome(st, store, timestamp, devices,
                ForEachDevice([cache |-> st.cache, states |-> st.states,
                               results |-> <<>>],
                              timestamp, devices, devices.order, st.enabled))

\* computeAllPositions(timestamp) on the module state st = [cache, states,
\* enabled] over the store [timestamps, byTs, window].
computeAllPositions(st, store, timestamp) ==
    PositionsOf(st, store, timestamp,
                getDevicesInTimeWindow(store.timestamps, store.byTs,
                                       store.window, timestamp))
\* ------------------------------------------------------------------------
\* Recordings: the validated entry arrays handed to processData
\* ------------------------------------------------------------------------

\* The most handler runs explored from the initial state.
MaxOps == 3

SensorA == <<65>>
SensorB == <<66>>
SensorC == <<67>>
GpsA == <<60000000, 10000000>>
GpsB == <<60000000, 10000090>>
GpsC == <<60000045, 10000000>>

DeviceD == <<100>>
DeviceE == <<101>>

T00 == <<48, 48>>
T05 == <<48, 53>>
T12 == <<49, 50>>
T30 == <<51, 48>>

\* validateOldFormatEntry / parseNewFormat: rssi defaults to -100
DefaultRssi == 0 - 100

Reading(mac, rssi, meters) ==
    [mac_hashed |-> mac, rssi |-> rssi, distance |-> meters * Unit]

Entry(key, gps, ts, devs) ==
    [device_key |-> key, gps |-> gps, timestamp |-> ts, devices |-> devs]

\* Two sensors reporting twelve seconds apart, then one sensor alone
\* eighteen seconds later.
Recording1 ==
    << Entry(SensorA, GpsA, T00, <<Reading(DeviceD, DefaultRssi, 3)>>),
       Entry(SensorB, GpsB, T12, <<Reading(DeviceD, DefaultRssi, 4),
                                   Reading(DeviceE, DefaultRssi, 2)>>),
       Entry(SensorC, GpsC, T30, <<Reading(DeviceD, DefaultRssi, 2),
                                   Reading(DeviceE, DefaultRssi, 2)>>) >>

\* Three sensors, a later file entry stored before an earlier one, repeated
\* (sensor, device) pairs, and readings outside the distance filter.
Recording2 ==
    << Entry(SensorC, GpsC, T05, <<Reading(DeviceD, DefaultRssi, 4),
                                   Reading(DeviceE, DefaultRssi, 2)>>),
       Entry(SensorA, GpsA, T00, <<Reading(DeviceD, DefaultRssi, 3),
                                   Reading(DeviceE, DefaultRssi, 0)>>),
       Entry(SensorB, GpsB, T00, <<Reading(DeviceD, DefaultRssi, 4),
                                   Reading(DeviceE, DefaultRssi, 0 - 1)>>),
       Entry(SensorA, GpsA, T05, <<Reading(DeviceD, DefaultRssi, 6),
                                   Reading(DeviceE, DefaultRssi, 200)>>) >>

\* Three sensors with strong signal readings on two of them, and a device
\* whose every reading is outside the distance filter.
Recording3 ==
    << Entry(SensorA, GpsA, T00, <<Reading(DeviceD, DefaultRssi, 6),
                                   Reading(DeviceE, DefaultRssi, 0)>>),
       Entry(SensorB, GpsB, T00, <<Reading(DeviceD, 0 - 86, 2)>>),
       Entry(SensorC, GpsC, T00, <<Reading(DeviceD, 0 - 86, 2)>>),
       Entry(SensorA, GpsA, T05, <<Reading(DeviceD, DefaultRssi, 3),
                                   Reading(DeviceE, DefaultRssi, 250)>>) >>

\* Two sensors on one parallel about 5 m apart, each reporting the device
\* at 2.5 m: circles that touch in one point, a perfect fit.
Recording4 ==
    << Entry(SensorA, GpsA, T00, <<[mac_hashed |-> DeviceD, rssi |-> DefaultRssi,
                                    distance |-> 5 * (Unit \div 2)]>>),
       Entry(SensorB, GpsB, T00, <<[mac_hashed |-> DeviceD, rssi |-> DefaultRssi,
                                    distance |-> 5 * (Unit \div 2)]>>),
       Entry(SensorA, GpsA, T05, <<[mac_hashed |-> DeviceD, rssi |-> DefaultRssi,
                                    distance |-> 5 * (Unit \div 2)]>>) >>

Recordings == {Recording1, Recording2, Recording3, Recording4}

\* Arguments tried for setTimeWindow.
Windows == {0 - 5000, 0, 5000, 15000}

\* Target timestamps tried for a direct getDevicesInTimeWindow query; the
\* last one is later than every stored timestamp by more than any window.
T60 == <<54, 48>>
QueryTimes == {T00, T05, T12, T30, T60}

\* ------------------------------------------------------------------------
\* The application state
\* ------------------------------------------------------------------------

VARIABLES
    TIME_WINDOW_MS,     \* DataHandler: half-width of the sync window, ms
    timestamps,         \* DataHandler: sorted unique timestamps
    dataByTimestamp,    \* DataHandler: timestamp -> entries
    resultCache,        \* Lateration: cache key -> result or Null
    kalmanEnabled,      \* Lateration: smoothing switch
    kalmanStates,       \* Lateration: device -> filter state
    tcTimestamps,       \* TimeControls: timestamps
    currentIndex,       \* TimeControls: index of the shown timestamp (from 0)
    isPlaying,          \* TimeControls: playback is running
    currentDevices,     \* App: the array last returned by computeAllPositions
    calls,              \* the computeAllPositions calls of the last handler
    lastQuery,          \* the last direct getDevicesInTimeWindow query
    lastOp,             \* the last handler that ran
    opCount,            \* handlers run so far
    fnIn,               \* function bench: the arguments under test; live path: the sensor of the last call
    fnOut,              \* function bench: what the function returned; live path: what assignSensorGps returned
    knownSensors,       \* MqttHandler: sensorId -> { lat, lng } or null
    unassignedSensors,  \* MqttHandler: sensors without GPS
    dataQueue,          \* MqttHandler: messages held until GPS is assigned
    gpsStorage,         \* GpsStorage: the persisted sensorId -> coordinates
    realtimeReadingsBuffer, \* App: mac_hashed -> buffered readings
    realtimeUpdateTimer,    \* App: id of the timer armed last (ids start at 1), 0 for null
    timers,             \* the browser: pending timeouts, each with its due time
    now,                \* the browser: Date.now(), ms
    arrived,            \* MQTT messages received so far
    delivered,          \* the entries handed to the message callback
    runs                \* the computeRealtimePositions runs

vars == <<TIME_WINDOW_MS, timestamps, dataByTimestamp, resultCache,
          kalmanEnabled, kalmanStates, tcTimestamps, currentIndex,
          isPlaying, currentDevices, calls, lastQuery, lastOp, opCount, fnIn, fnOut,
          knownSensors, unassignedSensors, dataQueue, gpsStorage,
          realtimeReadingsBuffer, realtimeUpdateTimer, timers, now, arrived,
          delivered, runs>>

\* The function bench is idle while the application runs.
benchVars == <<fnIn, fnOut>>

\* The live path (MqttHandler and the realtime buffer of App) is idle while
\* recordings are replayed.
mqttVars == <<knownSensors, unassignedSensors, dataQueue>>
liveVars == <<mqttVars, gpsStorage, realtimeReadingsBuffer, realtimeUpdateTimer,
              timers, now, arrived, delivered, runs>>

dataVars == <<timestamps, dataByTimestamp>>

Store == [timestamps |-> timestamps, byTs |-> dataByTimestamp,
          window |-> TIME_WINDOW_MS]

\* The Lateration and App state a handler starts from.
Run == [cache |-> resultCache, states |-> kalmanStates,
        enabled |-> kalmanEnabled, current |-> currentDevices, calls |-> <<>>]

\* A variant that leaves the Kalman states in place.
clearCache_KeepsKalman(run) == [run EXCEPT !.cache = EmptyMap]

\* clearCache: empties the result cache and the Kalman states.
clearCache(run) == [run EXCEPT !.cache = EmptyMap, !.states = EmptyMap]

\* resetKalmanFilters: empties the Kalman states only.
resetKalmanFilters(run) == [run EXCEPT !.states = EmptyMap]

\* setKalmanEnabled: sets the switch; switching on resets the filters.
setKalmanEnabled(run, enabled) ==
    IF enabled
    THEN resetKalmanFilters([run EXCEPT !.enabled = enabled])
    ELSE [run EXCEPT !.enabled = enabled]

\* currentDevices = <the array returned by computeAllPositions>
AssignDevices(run, r) ==
    [cache |-> r.cache, states |-> r.states, enabled |-> r.enabled,
     current |-> r.results, calls |-> Append(run.calls, r.call)]

\* handleTimestampChange: currentDevices = computeAllPositions(timestamp)
handleTimestampChange(run, store, timestamp) ==
    AssignDevices(run, computeAllPositions(run, store, timestamp))

\* A render of timestamps[0], if there is one.
RenderFirst(run, store) ==
    IF Len(store.timestamps) > 0
    THEN handleTimestampChange(run, store, store.timestamps[1])
    ELSE run

\* onDataLoaded on freshly processed data: clearCache, then setTimestamps
\* (whose callback renders timestamps[0]) and the initial render of
\* timestamps[0] again.
onDataLoaded(run, store) ==
    RenderFirst(RenderFirst(clearCache(run), store), store)

\* Writes the outcome of a handler back to the state.
Commit(run, op) ==
    /\ UNCHANGED <<lastQuery, benchVars, liveVars>>
    /\ resultCache' = run.cache
    /\ kalmanStates' = run.states
    /\ kalmanEnabled' = run.enabled
    /\ currentDevices' = run.current
    /\ calls' = run.calls
    /\ lastOp' = op
    /\ opCount' = opCount + 1

AppInit ==
    /\ TIME_WINDOW_MS = 15000
    /\ timestamps = <<>>
    /\ dataByTimestamp = EmptyMap
    /\ resultCache = EmptyMap
    /\ kalmanEnabled = TRUE
    /\ kalmanStates = EmptyMap
    /\ tcTimestamps = <<>>
    /\ currentIndex = 0
    /\ isPlaying = FALSE
    /\ currentDevices = <<>>
    /\ calls = <<>>
    /\ lastQuery = Null
    /\ lastOp = "init"
    /\ opCount = 0
    /\ knownSensors = EmptyMap
    /\ unassignedSensors = {}
    /\ dataQueue = <<>>
    /\ gpsStorage = EmptyMap
    /\ realtimeReadingsBuffer = [order |-> <<>>, lists |-> EmptyMap]
    /\ realtimeUpdateTimer = 0
    /\ timers = {}
    /\ now = 0
    /\ arrived = 0
    /\ delivered = <<>>
    /\ runs = <<>>

Init == AppInit /\ fnIn = Null /\ fnOut = Null

\* loadFile / loadSampleData: processData, then onDataLoaded.
LoadFile ==
    /\ opCount < MaxOps
    /\ \E data \in Recordings :
        LET store == [timestamps |-> SortedTimestamps(data),
                      byTs |-> GroupByTimestamp(data),
                      window |-> TIME_WINDOW_MS]
        IN  /\ timestamps' = store.timestamps
            /\ dataByTimestamp' = store.byTs
            /\ tcTimestamps' = store.timestamps
            /\ currentIndex' = 0
            /\ Commit(onDataLoaded(Run, store), "onDataLoaded")
    /\ UNCHANGED <<TIME_WINDOW_MS, isPlaying>>

\* loadSampleData when loadFromUrl is served data without GPS: parseAndValidate
\* answers { valid: true, needsGps: true } with no data field, loadFromUrl
\* does not test needsGps and calls processData(undefined), which empties
\* the store and then throws on data.forEach; the promise rejects, so
\* onDataLoaded (clearCache, setTimestamps, render) does not run.
LoadSampleDataRejected ==
    /\ opCount < MaxOps
    /\ timestamps' = <<>>
    /\ dataByTimestamp' = EmptyMap
    /\ calls' = <<>>
    /\ lastOp' = "loadSampleDataRejected"
    /\ opCount' = opCount + 1
    /\ UNCHANGED <<TIME_WINDOW_MS, tcTimestamps, currentIndex, isPlaying, resultCache,
                   kalmanEnabled, kalmanStates, currentDevices, lastQuery,
                   benchVars, liveVars>>

\* TimeControls.step(delta)
Step ==
    /\ opCount < MaxOps
    /\ \E delta \in {0 - 1, 1} :
        LET newIndex == currentIndex + delta
        IN  /\ newIndex >= 0 /\ newIndex < Len(tcTimestamps)
            /\ currentIndex' = newIndex
            /\ Commit(handleTimestampChange(Run, Store, tcTimestamps[newIndex + 1]),
                      "step")
    /\ UNCHANGED <<TIME_WINDOW_MS, dataVars, tcTimestamps, isPlaying>>

\* TimeControls.handleSliderChange with the slider at newIndex
HandleSliderChange ==
    /\ opCount < MaxOps
    /\ \E newIndex \in 0..(Len(tcTimestamps) - 1) :
        /\ newIndex # currentIndex
        /\ currentIndex' = newIndex
        /\ Commit(handleTimestampChange(Run, Store, tcTimestamps[newIndex + 1]),
                  "handleSliderChange")
    /\ UNCHANGED <<TIME_WINDOW_MS, dataVars, tcTimestamps, isPlaying>>

\* The change handler of the Kalman checkbox.
KalmanToggle ==
    /\ opCount < MaxOps
    /\ \E checked \in BOOLEAN :
        LET set == setKalmanEnabled(Run, checked)
        IN  Commit(IF Len(timestamps) > 0
                   THEN handleTimestampChange(set, Store,
                                              tcTimestamps[currentIndex + 1])
                   ELSE set,
                   IF checked THEN "kalmanOn" ELSE "kalmanOff")
    /\ UNCHANGED <<TIME_WINDOW_MS, dataVars, tcTimestamps, currentIndex, isPlaying>>

\* DataHandler.setTimeWindow(windowMs)
SetTimeWindow ==
    /\ opCount < MaxOps
    /\ \E windowMs \in Windows : TIME_WINDOW_MS' = ClampWindow(windowMs)
    /\ Commit(Run, "setTimeWindow")
    /\ UNCHANGED <<dataVars, tcTimestamps, currentIndex, isPlaying>>

\* Lateration.clearCache()
ClearCache ==
    /\ opCount < MaxOps
    /\ Commit(clearCache(Run), "clearCache")
    /\ UNCHANGED <<TIME_WINDOW_MS, dataVars, tcTimestamps, currentIndex, isPlaying>>

\* Lateration.resetKalmanFilters()
ResetKalmanFilters ==
    /\ opCount < MaxOps
    /\ Commit(resetKalmanFilters(Run), "resetKalmanFilters")
    /\ UNCHANGED <<TIME_WINDOW_MS, dataVars, tcTimestamps, currentIndex, isPlaying>>

\* TimeControls.togglePlayback: pause() when playing, else play(), which
\* does nothing without timestamps. No engine state is touched.
TogglePlayback ==
    /\ isPlaying' = (IF isPlaying THEN FALSE ELSE Len(tcTimestamps) # 0)
    /\ calls' = <<>>
    /\ lastOp' = "togglePlayback"
    /\ UNCHANGED <<TIME_WINDOW_MS, dataVars, tcTimestamps, currentIndex,
                   resultCache, kalmanEnabled, kalmanStates, currentDevices,
                   lastQuery, opCount, benchVars, liveVars>>

\* TimeControls.animationLoop on a frame with elapsed >= interval: the
\* index advances and wraps to 0 past the last timestamp, then the update
\* callback renders the timestamp.
AnimationLoop ==
    /\ opCount < MaxOps
    /\ isPlaying
    /\ LET newIndex == IF currentIndex + 1 >= Len(tcTimestamps) THEN 0
                       ELSE currentIndex + 1
       IN  /\ currentIndex' = newIndex
           /\ Commit(handleTimestampChange(Run, Store, tcTimestamps[newIndex + 1]),
                     "animationLoop")
    /\ UNCHANGED <<TIME_WINDOW_MS, dataVars, tcTimestamps, isPlaying>>

\* DataHandler.getDevicesInTimeWindow(timestamp), called on its own.
QueryWindow ==
    /\ opCount < MaxOps
    /\ \E timestamp \in QueryTimes :
        lastQuery' = [timestamp |-> timestamp,
                      window |-> TIME_WINDOW_MS,
                      timestamps |-> timestamps,
                      byTs |-> dataByTimestamp,
                      devices |-> getDevicesInTimeWindow(timestamps, dataByTimestamp,
                                                         TIME_WINDOW_MS, timestamp)]
    /\ calls' = <<>>
    /\ lastOp' = "getDevicesInTimeWindow"
    /\ opCount' = opCount + 1
    /\ UNCHANGED <<TIME_WINDOW_MS, dataVars, tcTimestamps, currentIndex, isPlaying,
                   resultCache, kalmanEnabled, kalmanStates, currentDevices,
                   benchVars, liveVars>>

Next ==
    \/ LoadFile
    \/ LoadSampleDataRejected
    \/ Step
    \/ HandleSliderChange
    \/ KalmanToggle
    \/ TogglePlayback
    \/ AnimationLoop
    \/ SetTimeWindow
    \/ QueryWindow
    \/ ClearCache
    \/ ResetKalmanFilters

Spec == Init /\ [][Next]_vars

\* ------------------------------------------------------------------------
\* Vocabulary of the properties
\* ------------------------------------------------------------------------

Devices == {DeviceD, DeviceE}

\* Handlers that clear the result cache, and handlers that clear the
\* Kalman states.
CacheClearingOps == {"onDataLoaded", "clearCache"}
KalmanResetOps == {"onDataLoaded", "clearCache", "resetKalmanFilters", "kalmanOn"}

\* The raw fields of a returned estimate and the same fields of a result.
RawFields(e) ==
    <<e.rawLat, e.rawLng, e.qualityLevel, e.sensorCount, e.confidence, e.variance>>
ResultFields(r) ==
    <<r.lat, r.lng, r.qualityLevel, r.sensorCount, r.confidence, r.variance>>

\* Every aggregator query made by the last handler or asked directly, with
\* the store it was asked of.
Queries ==
    {[timestamp |-> calls[i].timestamp, window |-> calls[i].window,
      timestamps |-> timestamps, byTs |-> dataByTimestamp,
      devices |-> calls[i].devices] : i \in DOMAIN calls}
    \cup (IF lastQuery = Null THEN {} ELSE {lastQuery})

InWindow(t, q) ==
    /\ DateMs(t) >= DateMs(q.timestamp) - q.window
    /\ DateMs(t) <= DateMs(q.timestamp) + q.window

\* The stored readings of a (sensor, device) pair inside the window of
\* query q, each as <<timestamp index, entry index, reading index>>.
PairReadings(sensor, mac, q) ==
    {p \in (DOMAIN q.timestamps) \X (1..4) \X (1..2) :
        /\ p[2] \in DOMAIN q.byTs[q.timestamps[p[1]]]
        /\ p[3] \in DOMAIN q.byTs[q.timestamps[p[1]]][p[2]].devices
        /\ InWindow(q.timestamps[p[1]], q)
        /\ q.byTs[q.timestamps[p[1]]][p[2]].device_key = sensor
        /\ q.byTs[q.timestamps[p[1]]][p[2]].devices[p[3]].mac_hashed = mac}

\* Walk order: by timestamp, then entry, then reading.
Before(p, r) ==
    \/ p[1] < r[1]
    \/ p[1] = r[1] /\ p[2] < r[2]
    \/ p[1] = r[1] /\ p[2] = r[2] /\ p[3] < r[3]

FirstReading(sensor, mac, q) ==
    CHOOSE p \in PairReadings(sensor, mac, q) :
        \A r \in PairReadings(sensor, mac, q) : r = p \/ Before(p, r)

Sensors == {SensorA, SensorB, SensorC}

\* The observations with 0 < distance < 200, counted on the integers.
Survivors(observations) ==
    {i \in DOMAIN observations :
        observations[i].distance > 0 /\ observations[i].distance < 200 * Unit}

\* ------------------------------------------------------------------------
\* Properties
\* ------------------------------------------------------------------------

C1_Step ==
    /\ lastOp' \notin CacheClearingOps =>
          \A k \in DOMAIN resultCache :
              k \in DOMAIN resultCache' /\ resultCache'[k] = resultCache[k]
    /\ \A i \in DOMAIN calls' :
        LET c == calls'[i]
        IN  /\ \A j \in DOMAIN c.results :
                LET e == c.results[j]
                    k == getCacheKey(c.timestamp, e.macHashed)
                IN  /\ k \in DOMAIN resultCache'
                    /\ resultCache'[k] # Null
                    /\ RawFields(e) = ResultFields(resultCache'[k])
                    /\ (lastOp' \notin CacheClearingOps /\ k \in DOMAIN resultCache)
                          => RawFields(e) = ResultFields(resultCache[k])
            /\ \A mac \in Range(c.devices.order) :
                LET k == getCacheKey(c.timestamp, mac)
                IN  /\ k \in DOMAIN resultCache'
                    /\ k \notin c.cachedBefore
                          => resultCache'[k] = trilaterate(c.devices.lists[mac])
                    /\ Emitted(resultCache'[k])
                          => \E j \in DOMAIN c.results : c.results[j].macHashed = mac

\* C1 (amended): once computeAllPositions has cached a raw result for a
\* (timestamp, device) key, the entry stays as written until a handler that
\* calls clearCache runs: it is the solver's output for the observations of
\* the call that wrote it, never a smoothed position, and never overwritten.
\* Every call returns a device that the aggregator lists and whose cached
\* result is non-null and not NaN, and the raw fields it returns (rawLat,
\* rawLng, qualityLevel, sensorCount, confidence, variance) are those of the
\* cache entry, with smoothing on or off.
C1_CacheWriteOnce == [][C1_Step]_vars

\* A move back to a timestamp queried before: the estimate comes from the
\* cache and its smoothed position differs from its raw position.
C1_Witness ==
    /\ lastOp \in {"step", "handleSliderChange"}
    /\ \E i \in DOMAIN calls : \E j \in DOMAIN calls[i].results :
        LET e == calls[i].results[j]
        IN  /\ getCacheKey(calls[i].timestamp, e.macHashed) \in calls[i].cachedBefore
            /\ e.isSmoothed
            /\ e.lat # e.rawLat

\* C1 (as stated): every computeAllPositions call with a timestamp for which
\* a raw result of a device is already cached returns that device with the
\* cached raw fields.
C1_EveryLaterCallReturns ==
    \A i \in DOMAIN calls : \A mac \in Devices :
        LET c == calls[i]
            k == getCacheKey(c.timestamp, mac)
        IN  (k \in c.cachedBefore /\ k \in DOMAIN resultCache
             /\ Emitted(resultCache[k]))
            => \E j \in DOMAIN c.results :
                  /\ c.results[j].macHashed = mac
                  /\ RawFields(c.results[j]) = ResultFields(resultCache[k])

\* The devices estimated by the calls of the last handler.
Estimated ==
    UNION {{calls[i].results[j].macHashed : j \in DOMAIN calls[i].results} :
              i \in DOMAIN calls}

\* C2: after clearCache and after resetKalmanFilters no Kalman state is
\* left; the handler that switches smoothing on and the handler that runs
\* after a dataset load start their first computeAllPositions call from an
\* empty state map, so every state left afterwards belongs to a device
\* estimated after the event; and in every call the estimate of a device
\* that had no state when the call began equals its raw estimate.
C2_ResetsClearKalman ==
    /\ lastOp \in {"clearCache", "resetKalmanFilters"} => kalmanStates = EmptyMap
    /\ lastOp \in {"kalmanOn", "onDataLoaded"} =>
        /\ calls = <<>> => kalmanStates = EmptyMap
        /\ calls # <<>> => calls[1].statesBefore = {}
        /\ DOMAIN kalmanStates \subseteq Estimated
    /\ \A i \in DOMAIN calls : \A j \in DOMAIN calls[i].results :
        LET e == calls[i].results[j]
        IN  e.macHashed \notin calls[i].statesBefore
            => e.lat = e.rawLat /\ e.lng = e.rawLng

\* Smoothing switched on at a later timestamp of a loaded recording: the
\* refresh returns smoothed estimates from fresh states.
C2_Witness ==
    /\ lastOp = "kalmanOn"
    /\ currentIndex > 0
    /\ \E j \in DOMAIN currentDevices : currentDevices[j].isSmoothed
    /\ kalmanStates # EmptyMap

QualityFor(n) == IF n = 1 THEN "low" ELSE IF n = 2 THEN "medium" ELSE "high"
ConfidenceFor(n) ==
    IF n = 1 THEN Unit \div 5 ELSE IF n = 2 THEN Unit \div 2 ELSE Unit

\* C5: every non-null result the solver computes in a call has sensorCount
\* equal to the number n of its input observations with 0 < distance < 200,
\* and its qualityLevel and confidence are those of n: 1 gives low and 0.2,
\* 2 gives medium and 0.5, 3 or more gives high and 1.0; so results with the
\* same n agree on both, whatever their positions and variances.
C5_QualityBySensorCount ==
    /\ \A i \in DOMAIN calls : \A mac \in Range(calls[i].devices.order) :
        LET c == calls[i]
            k == getCacheKey(c.timestamp, mac)
            n == Cardinality(Survivors(c.devices.lists[mac]))
        IN  (k \notin c.cachedBefore /\ resultCache[k] # Null)
            => /\ n >= 1
               /\ resultCache[k].sensorCount = n
               /\ resultCache[k].qualityLevel = QualityFor(n)
               /\ resultCache[k].confidence = ConfidenceFor(n)
    /\ \A k1, k2 \in DOMAIN resultCache :
        (resultCache[k1] # Null /\ resultCache[k2] # Null
         /\ resultCache[k1].sensorCount = resultCache[k2].sensorCount)
        => /\ resultCache[k1].qualityLevel = resultCache[k2].qualityLevel
           /\ resultCache[k1].confidence = resultCache[k2].confidence

\* A freshly computed result with three surviving observations next to a
\* result with one survivor out of several observations.
C5_Witness ==
    \E i \in DOMAIN calls : \E m1, m2 \in Range(calls[i].devices.order) :
        LET c == calls[i]
            k1 == getCacheKey(c.timestamp, m1)
            k2 == getCacheKey(c.timestamp, m2)
        IN  /\ k1 \notin c.cachedBefore /\ k2 \notin c.cachedBefore
            /\ resultCache[k1] # Null /\ resultCache[k2] # Null
            /\ resultCache[k1].sensorCount = 3
            /\ resultCache[k2].sensorCount = 1
            /\ Len(c.devices.lists[m2]) > 1

\* C6: a freshly computed result keeps exactly the observations with
\* 0 < distance < 200, in order, and is null exactly when none survives; a
\* device whose result is null has no entry in the returned list, and the
\* call creates no Kalman state for it.
C6_FilterAndNull ==
    \A i \in DOMAIN calls : \A mac \in Range(calls[i].devices.order) :
        LET c == calls[i]
            k == getCacheKey(c.timestamp, mac)
            input == c.devices.lists[mac]
        IN  /\ k \notin c.cachedBefore =>
                /\ resultCache[k] = Null <=> Survivors(input) = {}
                /\ resultCache[k] # Null =>
                      resultCache[k].observations
                          = SelectSeq(input, LAMBDA o : o.distance > 0
                                                 /\ o.distance < 200 * Unit)
            /\ resultCache[k] = Null =>
                /\ \A j \in DOMAIN c.results : c.results[j].macHashed # mac
                /\ mac \notin c.statesBefore => mac \notin DOMAIN kalmanStates

\* A call that meets a device whose observations are all filtered out.
C6_Witness ==
    \E i \in DOMAIN calls : \E mac \in Range(calls[i].devices.order) :
        /\ getCacheKey(calls[i].timestamp, mac) \notin calls[i].cachedBefore
        /\ resultCache[getCacheKey(calls[i].timestamp, mac)] = Null
        /\ Len(calls[i].devices.lists[mac]) > 1
        /\ calls[i].enabled

\* C7 (as stated): in a call made with smoothing on, the estimate of a
\* device that had no Kalman state when the call began is its raw estimate,
\* and the state the call leaves for it has position (0,0), velocity (0,0),
\* covariance diag(100,100,10,10) and the raw estimate as anchor.
C7_FirstCallAnchorsState ==
    \A j \in DOMAIN (IF calls = <<>> THEN <<>> ELSE calls[Len(calls)].results) :
        LET c == calls[Len(calls)]
            e == c.results[j]
        IN  (c.enabled /\ e.macHashed \notin c.statesBefore)
            => /\ e.lat = e.rawLat
               /\ e.lng = e.rawLng
               /\ e.macHashed \in DOMAIN kalmanStates
               /\ kalmanStates[e.macHashed] =
                     [x |-> <<0, 0, 0, 0>>,
                      P |-> << <<100 * Unit, 0, 0, 0>>, <<0, 100 * Unit, 0, 0>>,
                               <<0, 0, 10 * Unit, 0>>, <<0, 0, 0, 10 * Unit>> >>,
                      refLat |-> e.rawLat,
                      refLng |-> e.rawLng]

C8_Step ==
    lastOp' \notin KalmanResetOps =>
        \A d \in DOMAIN kalmanStates :
            /\ d \in DOMAIN kalmanStates'
            /\ kalmanStates'[d].refLat = kalmanStates[d].refLat
            /\ kalmanStates'[d].refLng = kalmanStates[d].refLng
            /\ \A i \in DOMAIN calls' : \A j \in DOMAIN calls'[i].results :
                LET e == calls'[i].results[j]
                    old == kalmanStates[d]
                    new == kalmanStates'[d]
                    m == gpsToMeters(e.rawLat, e.rawLng, old.refLat, old.refLng)
                    back == metersToGps(new.x[1], new.x[2], old.refLat, old.refLng)
                    step == kalmanUpdate(kalmanPredict(old, KalmanDt), m.x, m.y,
                                         EffectiveNoise(IF Truthy(e.variance)
                                                        THEN e.variance
                                                        ELSE Fx(FallbackVariance)))
                IN  (e.macHashed = d /\ calls'[i].enabled)
                    => /\ new.x = step.x
                       /\ e.isSmoothed => e.lat = back.lat /\ e.lng = back.lng

\* C8: while no handler resets the Kalman states, every state keeps the
\* refLat and refLng it was created with; a smoothing step projects the raw
\* estimate into that anchor's frame, and the smoothed position returned is
\* the new state position projected back from the same anchor.
C8_AnchorFixed == [][C8_Step]_vars

\* A step to another timestamp: a device with a state is smoothed from a
\* raw estimate that is not at its anchor.
C8_Witness ==
    /\ lastOp = "step"
    /\ \E i \in DOMAIN calls : \E j \in DOMAIN calls[i].results :
        LET e == calls[i].results[j]
        IN  /\ e.macHashed \in calls[i].statesBefore
            /\ e.isSmoothed
            /\ e.rawLat # kalmanStates[e.macHashed].refLat
            /\ e.lat # e.rawLat

\* C9 (as stated): every estimate returned by computeAllPositions has
\* finite lat and lng.
C9_EstimatesFinite ==
    \A i \in DOMAIN calls : \A j \in DOMAIN calls[i].results :
        /\ IsFin(calls[i].results[j].lat)
        /\ IsFin(calls[i].results[j].lng)

\* The position at distance d from the sensor of observation o at the
\* bearing of `angle` degrees.
AtBearing(o, angle) ==
    [lat |-> FAdd(o.sensor_lat, MetersToDeg(FMul(o.distance, CosDeg(angle)))),
     lng |-> FAdd(o.sensor_lng,
                  MetersToDeg(FDiv(FMul(o.distance, SinDeg(angle)),
                                   CosLat(o.sensor_lat))))]

\* C10 (as stated): an estimate from exactly one valid observation lies at
\* the measured distance from the sensor at the bearing hash(device
\* identifier) mod 360 degrees, and two such estimates from the same sensor
\* and distance whose bearings differ are at different positions.
C10_HashBearing ==
    \A i \in DOMAIN calls : \A j \in DOMAIN calls[i].results :
        LET e == calls[i].results[j]
            o == e.observations[1]
        IN  e.sensorCount = 1 =>
            /\ e.rawLat = AtBearing(o, HashAngle(e.macHashed)).lat
            /\ e.rawLng = AtBearing(o, HashAngle(e.macHashed)).lng
            /\ \A j2 \in DOMAIN calls[i].results :
                LET e2 == calls[i].results[j2]
                IN  (/\ e2.sensorCount = 1
                     /\ e2.observations[1].sensor_id = o.sensor_id
                     /\ e2.observations[1].distance = o.distance
                     /\ HashAngle(e2.macHashed) # HashAngle(e.macHashed))
                    => <<e2.rawLat, e2.rawLng>> # <<e.rawLat, e.rawLng>>


\* ------------------------------------------------------------------------
\* Function benches: a function of js/lateration.js applied to arguments
\* drawn from a bounded set, the application standing still
\* ------------------------------------------------------------------------

appVars == <<TIME_WINDOW_MS, timestamps, dataByTimestamp, resultCache,
             kalmanEnabled, kalmanStates, tcTimestamps, currentIndex, isPlaying,
             currentDevices, calls, lastQuery, lastOp, opCount, liveVars>>

\* ---- applyKalmanFilter, called again and again for one device ----------

\* The most consecutive applyKalmanFilter calls of the bench.
MaxCalls == 5

\* Measured positions: a point, and one about 1 m north and 1 m east of it.
KalmanPoints == {<<60000000, 10000000>>, <<60000009, 10000018>>}

\* The quality for which R = 2 (1 + quality / 10) = -110.5 cancels the
\* predicted position variance 100 + 10 + 0.5 of a state fresh from
\* createKalmanState, so that S is the zero matrix.  computeAllPositions
\* never passes it (there R >= 2 and S is positive definite): the guard of
\* kalmanUpdate is exercised by calling the filter itself.
SingularQuality == 0 - ((5625 * Unit) \div 10)

\* The variance of a raw result 5 m off, and the singular one.
KalmanQualities == {Fx(5), SingularQuality}

KalmanArgs == [point : KalmanPoints, quality : KalmanQualities]

\* The log of the bench after one more call with outcome out.
KalmanLogged(log, args, out) ==
    [calls |-> Append(log.calls,
                      [args |-> args, before |-> log.states,
                       after |-> out.states, lat |-> out.lat, lng |-> out.lng]),
     states |-> out.states]

KalmanInit ==
    /\ AppInit
    /\ fnIn \in KalmanArgs
    /\ fnOut = [calls |-> <<>>, states |-> EmptyMap]

\* applyKalmanFilter(DeviceD, lat, lng, quality) on the states the earlier
\* calls left; the arguments of the next call are drawn.
KalmanCall ==
    /\ Len(fnOut.calls) < MaxCalls
    /\ fnOut' = KalmanLogged(fnOut, fnIn,
                             applyKalmanFilter(fnOut.states, DeviceD,
                                               fnIn.point[1], fnIn.point[2],
                                               fnIn.quality))
    /\ fnIn' \in IF Len(fnOut.calls) + 1 < MaxCalls THEN KalmanArgs ELSE {fnIn}
    /\ UNCHANGED appVars

KalmanNext == KalmanCall

KalmanSpec == KalmanInit /\ [][KalmanNext]_vars

\* ---- trilaterate and its position estimators ---------------------------

\* An observation of the kind getDevicesInTimeWindow builds, at distance
\* `meters` and with signal strength rssi.
Obs(id, gps, meters, rssi) ==
    [sensor_id |-> id, distance |-> meters, rssi |-> rssi,
     sensor_lat |-> gps[1], sensor_lng |-> gps[2],
     original_timestamp |-> T00, time_offset_ms |-> 0]

\* A sensor with the position of sensor A, one on the parallel of A and B
\* beyond B, and one north-east of A.
SensorA2 == <<65, 50>>
SensorB2 == <<66, 50>>
SensorNE == <<78>>
GpsB2 == <<60000000, 10000180>>
GpsNE == <<60000045, 10000090>>

\* Sensor pairs: on one parallel about 5 m apart, on a diagonal about 7 m
\* apart, and at one position.
SensorPairs ==
    {<<<<SensorA, GpsA>>, <<SensorB, GpsB>>>>,
     <<<<SensorA, GpsA>>, <<SensorNE, GpsNE>>>>,
     <<<<SensorA, GpsA>>, <<SensorA2, GpsA>>>>}

\* Sensor triples: on one parallel (collinear), and at the corners of a
\* right triangle.
SensorTriples ==
    {<<<<SensorA, GpsA>>, <<SensorB, GpsB>>, <<SensorB2, GpsB2>>>>,
     <<<<SensorA, GpsA>>, <<SensorB, GpsB>>, <<SensorC, GpsC>>>>}

\* Measured distances in metres: inside the filter, up to its far end.
PairMeters == {1, 3, 4, 199}
TripleMeters == {2, 3, 4}

TwoObservations ==
    {<<Obs(s[1][1], s[1][2], Fx(d1), DefaultRssi),
       Obs(s[2][1], s[2][2], Fx(d2), DefaultRssi)>> :
        s \in SensorPairs, d1 \in PairMeters, d2 \in PairMeters}

ThreeObservations ==
    {<<Obs(s[1][1], s[1][2], Fx(d1), DefaultRssi),
       Obs(s[2][1], s[2][2], Fx(d2), DefaultRssi),
       Obs(s[3][1], s[3][2], Fx(d3), DefaultRssi)>> :
        s \in SensorTriples, d1 \in TripleMeters, d2 \in TripleMeters,
        d3 \in TripleMeters}

\* A projected observation: position in metres around the mean sensor
\* position, measured distance in metres, rssi.
Point(x, y, meters, rssi) ==
    [pos |-> [x |-> x, y |-> y], distance |-> Fx(meters), rssi |-> rssi]

\* Projected sensor pairs, each around its midpoint: 5 m apart on a
\* slope, 2.83 m apart on the diagonal, 1 m apart on the x axis, and 13 m
\* apart (further than the two smallest distances reach).
PointPairs ==
    {<<<<0 - Fx(2), 0 - 3 * (Unit \div 2)>>, <<Fx(2), 3 * (Unit \div 2)>>>>,
     <<<<0 - Fx(1), 0 - Fx(1)>>, <<Fx(1), Fx(1)>>>>,
     <<<<0 - Unit \div 2, 0>>, <<Unit \div 2, 0>>>>,
     <<<<0 - Fx(6), 5 * (Unit \div 2)>>, <<Fx(6), 0 - 5 * (Unit \div 2)>>>>}

TwoPoints ==
    {<<Point(s[1][1], s[1][2], d1, DefaultRssi),
       Point(s[2][1], s[2][2], d2, DefaultRssi)>> :
        s \in PointPairs, d1 \in PairMeters, d2 \in PairMeters}

\* Three sensors at the corners of a scalene triangle and four sensors,
\* each set around its mean position, with points of the plane whose
\* distances to every sensor of the set are whole metres: the sensor
\* positions, then each true point with its distances.
Triangle == <<<<0 - 4, 0 - 3>>, <<0, 3>>, <<4, 0>>>>
TriangleTruths ==
    {<<<<0 - 4, 0>>, <<3, 5, 8>>>>, <<<<0, 0 - 3>>, <<4, 6, 5>>>>,
     <<<<0, 0>>, <<5, 3, 4>>>>, <<<<4, 3>>, <<10, 4, 3>>>>}
Quadrangle == <<<<0 - 3, 2>>, <<0, 0 - 2>>, <<0, 2>>, <<3, 0 - 2>>>>
QuadrangleTruths == {<<<<0 - 3, 0 - 2>>, <<4, 3, 5, 6>>>>}

\* Signal strengths: the default, two stronger ones, and one whose weight
\* 10^((rssi + 100) / 20) is beyond the largest model number.
TriangleRssi == {DefaultRssi, 0 - 94, 80}
QuadrangleRssi == {DefaultRssi, 0 - 97}

\* The observations of the sensors at exact distances from a true point,
\* listed in the order p with signal strengths r.
ExactPoints(sensors, truth, p, r) ==
    [points |-> [i \in DOMAIN sensors |->
                    Point(Fx(sensors[p[i]][1]), Fx(sensors[p[i]][2]),
                          truth[2][p[i]], r[p[i]])],
     truth |-> [x |-> Fx(truth[1][1]), y |-> Fx(truth[1][2])]]

ExactInputs ==
    {ExactPoints(Triangle, t, p, r) :
        t \in TriangleTruths, p \in Permutations(1..3),
        r \in [1..3 -> TriangleRssi]}
    \cup {ExactPoints(Quadrangle, t, p, r) :
        t \in QuadrangleTruths, p \in Permutations(1..4),
        r \in [1..4 -> QuadrangleRssi]}

SolverInit ==
    /\ AppInit
    /\ fnIn \in {[observations |-> o] : o \in TwoObservations \cup ThreeObservations}
                \cup {[points |-> p] : p \in TwoPoints}
                \cup ExactInputs
    /\ fnOut = Null

\* Lateration.trilaterate(observations)
TrilaterateCall ==
    /\ fnOut = Null
    /\ "observations" \in DOMAIN fnIn
    /\ fnOut' = [result |-> trilaterate(fnIn.observations)]
    /\ UNCHANGED <<fnIn, appVars>>

\* The position estimate trilaterate takes for two or more projected
\* points.
EstimateCall ==
    /\ fnOut = Null
    /\ "points" \in DOMAIN fnIn
    /\ fnOut' = [estimate |-> EstimatePosition(fnIn.points)]
    /\ UNCHANGED <<fnIn, appVars>>

SolverNext == TrilaterateCall \/ EstimateCall

SolverSpec == SolverInit /\ [][SolverNext]_vars

\* ---- gpsToMeters and metersToGps --------------------------------------

\* Reference points in micro-degrees: at 60 N, on the equator, in the
\* southern and western hemispheres, at 89 N, and at the pole, where the
\* cosine of the latitude is 0.
GeoReferences ==
    {<<60000000, 10000000>>, <<0, 0>>, <<0 - 33500000, 0 - 70250000>>,
     <<89000000, 10000000>>, <<90000000, 10000000>>}

\* Offsets of a position from the reference point, in micro-degrees: from
\* a tenth of a metre to some thirty kilometres.
GeoOffsets == {0 - 300000, 0 - 45, 0, 1, 90, 250000}

GeoArgs ==
    {[lat |-> r[1] + dlat, lng |-> r[2] + dlng, refLat |-> r[1], refLng |-> r[2]] :
        r \in GeoReferences, dlat \in GeoOffsets, dlng \in GeoOffsets}

GeoInit ==
    /\ AppInit
    /\ fnIn \in GeoArgs
    /\ fnOut = Null

\* Lateration.gpsToMeters(lat, lng, refLat, refLng)
GpsToMetersCall ==
    /\ fnOut = Null
    /\ fnOut' = [local |-> gpsToMeters(fnIn.lat, fnIn.lng, fnIn.refLat, fnIn.refLng)]
    /\ UNCHANGED <<fnIn, appVars>>

\* Lateration.metersToGps(x, y, refLat, refLng) on the point just returned
MetersToGpsCall ==
    /\ fnOut # Null
    /\ "gps" \notin DOMAIN fnOut
    /\ fnOut' = [local |-> fnOut.local,
                 gps |-> metersToGps(fnOut.local.x, fnOut.local.y,
                                     fnIn.refLat, fnIn.refLng)]
    /\ UNCHANGED <<fnIn, appVars>>

GeoNext == GpsToMetersCall \/ MetersToGpsCall

GeoSpec == GeoInit /\ [][GeoNext]_vars

\* ------------------------------------------------------------------------
\* C11: reload and the result cache
\* ------------------------------------------------------------------------

\* Handlers in which processData replaces the stored dataset.
DataReplacingOps == {"onDataLoaded", "loadSampleDataRejected"}

\* Every estimate returned by the calls of the last handler carries the raw
\* fields the solver gives for the observations of that call.
FreshResults ==
    \A i \in DOMAIN calls : \A j \in DOMAIN calls[i].results :
        RawFields(calls[i].results[j])
            = ResultFields(trilaterate(
                  calls[i].devices.lists[calls[i].results[j].macHashed]))

\* C11: once processData has replaced the dataset, the result cache is empty
\* before the next computeAllPositions call (the first call of the loading
\* handler finds it empty, and a load that makes no call leaves it empty),
\* and no returned estimate stems from the earlier dataset.
C11_ReloadClearsCache ==
    lastOp \in DataReplacingOps =>
        /\ IF calls = <<>> THEN resultCache = EmptyMap
           ELSE calls[1].cachedBefore = {}
        /\ FreshResults

\* ------------------------------------------------------------------------
\* Properties of the Kalman filter (specification KalmanSpec)
\* ------------------------------------------------------------------------

\* The last call of the bench, and what kalmanUpdate was handed in it.
LastCall == fnOut.calls[Len(fnOut.calls)]
LastState == LastCall.before[DeviceD]
LastPredicted == kalmanPredict(LastState, KalmanDt)
LastInnovationCov ==
    InnovationCov(LastPredicted.P, EffectiveNoise(LastCall.args.quality))
Smoothing == fnOut.calls # <<>> /\ DeviceD \in DOMAIN LastCall.before
SingularUpdate ==
    /\ Smoothing
    /\ FLt(FAbs(InnovationDet(LastInnovationCov)), KalmanDetEps)

\* C12: when the determinant of the innovation covariance S is below the
\* threshold in magnitude, the state and covariance of the device become
\* exactly the predicted ones, the returned position is the predicted
\* position, and the call returns numbers (it does not fail).
C12_SingularKeepsPrediction ==
    SingularUpdate =>
        /\ LastCall.after[DeviceD].x = LastPredicted.x
        /\ LastCall.after[DeviceD].P = LastPredicted.P
        /\ [lat |-> LastCall.lat, lng |-> LastCall.lng]
               = metersToGps(LastPredicted.x[1], LastPredicted.x[2],
                             LastState.refLat, LastState.refLng)
        /\ IsFin(LastCall.lat) /\ IsFin(LastCall.lng)

\* A singular update whose measurement differs from the prediction, so
\* that a gain would have moved the state.
C12_Witness ==
    /\ SingularUpdate
    /\ gpsToMeters(LastCall.args.point[1], LastCall.args.point[2],
                   LastState.refLat, LastState.refLng).x # LastPredicted.x[1]

\* Every call of the bench so far was handed the same point, the first
\* one having created the state.
ConstantFeed ==
    \A i \in DOMAIN fnOut.calls :
        fnOut.calls[i].args.point = fnOut.calls[1].args.point

\* The distance in metres between the output of call i and the point it
\* was handed.
OutputError(i) ==
    distance(gpsToMeters(fnOut.calls[i].lat, fnOut.calls[i].lng,
                         fnOut.calls[i].args.point[1],
                         fnOut.calls[i].args.point[2]),
             [x |-> 0, y |-> 0])

\* The velocity estimate in coordinate c = 3 (x) or 4 (y) after call i.
VelocityAfter(i, c) == fnOut.calls[i].after[DeviceD].x[c]

\* C18: when every call since the creation of the state is handed the
\* same point, the distance between the smoothed output and that point
\* never increases from one call to the next, and neither component of
\* the estimated velocity changes sign.
C18_ConstantFeedConverges ==
    ConstantFeed =>
        \A i \in 1..(Len(fnOut.calls) - 1) :
            /\ IsFin(OutputError(i + 1))
            /\ OutputError(i + 1) <= OutputError(i)
            /\ \A c \in {3, 4} :
                   Sgn(VelocityAfter(i, c)) * Sgn(VelocityAfter(i + 1, c)) >= 0

\* The same point handed to five consecutive calls.
C18_Witness ==
    /\ ConstantFeed
    /\ Len(fnOut.calls) >= 5

\* ------------------------------------------------------------------------
\* Properties of the solver (specification SolverSpec)
\* ------------------------------------------------------------------------

Located == fnOut # Null /\ "result" \in DOMAIN fnOut /\ fnOut.result # Null

\* The valid observations of the call and their projection around the
\* mean sensor position.
CallValid ==
    IF "observations" \in DOMAIN fnIn THEN ValidObs(fnIn.observations) ELSE <<>>
CallRefLat == MeanOf(CallValid, "sensor_lat")
CallRefLng == MeanOf(CallValid, "sensor_lng")
CallPoints == ProjectPoints(CallValid, CallRefLat, CallRefLng)

\* The determinant of the weighted normal equations of the call.
CallDet ==
    NormalDet(NormalMatrix(DesignMatrix(CallPoints), Weights(CallPoints)))

SingularSolve ==
    /\ Located
    /\ Len(CallValid) >= 3
    /\ FLt(FAbs(CallDet), DetEps)

\* The unweighted mean of the rows 2 (P_i - P_1), i = 2..n, of A.
RowMean(points, c) ==
    FDivCount(SumOver([i \in 1..(Len(points) - 1) |->
                          FMul(Fx(2), FSub(points[i + 1].pos[c], points[1].pos[c]))],
                      Len(points) - 1),
              Len(points) - 1)

\* C13: with three or more valid observations and a determinant of the
\* weighted normal equations below the threshold in magnitude, the solver
\* fails nowhere: the position is the unweighted mean of the rows of A (a
\* finite point), and the result is classified 'high' with confidence 1.0.
C13_SingularFallsBackToRowMean ==
    SingularSolve =>
        /\ [lat |-> fnOut.result.lat, lng |-> fnOut.result.lng]
               = metersToGps(RowMean(CallPoints, "x"), RowMean(CallPoints, "y"),
                             CallRefLat, CallRefLng)
        /\ IsFin(fnOut.result.lat) /\ IsFin(fnOut.result.lng)
        /\ fnOut.result.qualityLevel = "high"
        /\ fnOut.result.confidence = Unit

\* Three collinear sensors at different positions.
C13_Witness ==
    /\ SingularSolve
    /\ CallPoints[1].pos # CallPoints[2].pos
    /\ CallPoints[2].pos # CallPoints[3].pos

\* The precision of the model's square root above 5 m^2: one centimetre.
SqrtPrecision == Unit \div 100

Near(a, b) == IsFin(a) /\ IsFin(b) /\ Abs(a - b) <= SqrtPrecision

TwoSensorCall == Located /\ Len(CallValid) = 2

\* The separation D of the two projected sensors.
CallSeparation == distance(CallPoints[1].pos, CallPoints[2].pos)

\* C15 (as stated): with exactly two valid observations the reported
\* variance is |d1 + d2 - D| for every separation D >= 0 of the sensors,
\* and for coincident sensors (D = 0) the position is that of the first.
C15_TwoSensorVariance ==
    TwoSensorCall =>
        /\ Near(fnOut.result.variance,
                FAbs(FSub(FAdd(CallValid[1].distance, CallValid[2].distance),
                          CallSeparation)))
        /\ CallSeparation = 0 =>
               [lat |-> fnOut.result.lat, lng |-> fnOut.result.lng]
                   = metersToGps(CallPoints[1].pos.x, CallPoints[1].pos.y,
                                 CallRefLat, CallRefLng)

\* A call of the estimator on two points at different positions.
EstimatorCalled == fnOut # Null /\ "estimate" \in DOMAIN fnOut
TwoPointCall ==
    /\ EstimatorCalled
    /\ Len(fnIn.points) = 2
    /\ fnIn.points[1].pos # fnIn.points[2].pos

\* v lies between a and b, whichever is the smaller, up to one model unit.
Between(v, a, b) ==
    /\ v >= (IF a < b THEN a ELSE b) - 1
    /\ v <= (IF a < b THEN b ELSE a) + 1

\* (e - p1) x (p2 - p1), zero on the line through p1 and p2.
Cross(e, p1, p2) ==
    FSub(FMul(FSub(e.x, p1.x), FSub(p2.y, p1.y)),
         FMul(FSub(e.y, p1.y), FSub(p2.x, p1.x)))

\* The point p1 + t (p2 - p1) in one coordinate c, for t = n / 2.
Along(p1, p2, c, n) == p1[c] + (n * (p2[c] - p1[c])) \div 2

\* The squared distance between two points.
SquaredDistance(e, p) ==
    FAdd(FMul(FSub(e.x, p.x), FSub(e.x, p.x)), FMul(FSub(e.y, p.y), FSub(e.y, p.y)))

\* The estimate e is at neither end of the allowed extrapolation.
Unclamped(e, p1, p2) ==
    \A c \in {"x", "y"} : e[c] # Along(p1, p2, c, 0 - 1) /\ e[c] # Along(p1, p2, c, 3)

\* The point of the line at parameter t = (D^2 + d1^2 - d2^2) / (2 D^2)
\* is the one whose squared distances to the sensors differ by
\* d1^2 - d2^2; the model's square root allows 0.1 m^2 of error.
AtParameterT(e, q1, q2) ==
    Abs(FSub(SquaredDistance(e, q1.pos), SquaredDistance(e, q2.pos))
        - FSub(FMul(q1.distance, q1.distance), FMul(q2.distance, q2.distance)))
        <= Unit \div 10

\* C16: with two valid observations at sensors D > 0 apart, for all
\* distances in (0, 200), physically inconsistent pairs included, the
\* estimate is finite, lies on the line through the sensors, and lies
\* between the points 0.5 D before the first and 0.5 D beyond the second
\* sensor (t clamped to [-0.5, 1.5]); short of those ends it is the point
\* at t = (D^2 + d1^2 - d2^2) / (2 D^2).
C16_TwoSensorEstimateBounded ==
    TwoPointCall =>
        /\ IsFin(fnOut.estimate.x) /\ IsFin(fnOut.estimate.y)
        /\ Near(Cross(fnOut.estimate, fnIn.points[1].pos, fnIn.points[2].pos), 0)
        /\ \A c \in {"x", "y"} :
               Between(fnOut.estimate[c],
                       Along(fnIn.points[1].pos, fnIn.points[2].pos, c, 0 - 1),
                       Along(fnIn.points[1].pos, fnIn.points[2].pos, c, 3))
        /\ Unclamped(fnOut.estimate, fnIn.points[1].pos, fnIn.points[2].pos)
               => AtParameterT(fnOut.estimate, fnIn.points[1], fnIn.points[2])

\* An inconsistent pair (199 m and 1 m from sensors 5 m apart) whose
\* estimate is at the end of the allowed extrapolation.
C16_Witness ==
    /\ TwoPointCall
    /\ fnIn.points[1].distance = Fx(199)
    /\ fnIn.points[2].distance = Fx(1)
    /\ fnOut.estimate.x = Along(fnIn.points[1].pos, fnIn.points[2].pos, "x", 3)
    /\ fnOut.estimate.x # fnIn.points[2].pos.x

\* A call of the estimator on three or more sensors, not all on one line,
\* with the exact distances from a true point.
ExactCall ==
    /\ EstimatorCalled
    /\ "truth" \in DOMAIN fnIn
    /\ Len(fnIn.points) >= 3
    /\ \E i \in DOMAIN fnIn.points :
           Cross(fnIn.points[i].pos, fnIn.points[1].pos, fnIn.points[2].pos) # 0

RecoversTruth ==
    /\ Near(fnOut.estimate.x, fnIn.truth.x)
    /\ Near(fnOut.estimate.y, fnIn.truth.y)

FiniteSystem(w, N, atb) ==
    /\ \A i \in DOMAIN w : IsFin(w[i]) /\ w[i] > 0
    /\ \A i, j \in 1..2 : IsFin(N[i][j]) /\ IsFin(FMul(N[i][j], atb[3 - i]))
    /\ IsFin(atb[1]) /\ IsFin(atb[2])
    /\ IsFin(NormalDet(N))

WeightsInRange ==
    FiniteSystem(Weights(fnIn.points),
                 NormalMatrix(DesignMatrix(fnIn.points), Weights(fnIn.points)),
                 NormalRhs(DesignMatrix(fnIn.points), RightHandSide(fnIn.points),
                           Weights(fnIn.points)))

SingleCallOps == {"step", "handleSliderChange"}

\* The estimates of such a handler that went through a smoothing step: the
\* device had a state, and the variance of its raw result is a number v >= 0.
SmoothingSteps ==
    IF lastOp' \in SingleCallOps /\ calls'[1].enabled
    THEN {j \in DOMAIN calls'[1].results :
            /\ calls'[1].results[j].macHashed \in DOMAIN kalmanStates
            /\ IsFin(calls'[1].results[j].variance)
            /\ calls'[1].results[j].variance >= 0}
    ELSE {}

\* The state a smoothing step leaves when its measurement noise is
\* R = 2.0 * (1 + v / 10) for the variance v of the raw result e.
StateWithNoiseOf(e) ==
    KalmanExisting(kalmanStates, e.macHashed, e.rawLat, e.rawLng, e.variance,
                   kalmanStates[e.macHashed]).states[e.macHashed]

\* Every smoothing step of the handler leaves the state that the noise of
\* the variance gives.
C14_Step ==
    \A j \in SmoothingSteps :
        kalmanStates'[calls'[1].results[j].macHashed]
            = StateWithNoiseOf(calls'[1].results[j])

\* C14 (as stated): in every smoothing step run by computeAllPositions the
\* measurement noise of the Kalman update is R = 2.0 * (1 + v / 10) for the
\* variance v >= 0 of the raw result of the device, v = 0 included.
C14_NoiseFromVariance == [][C14_Step]_vars

\* The handlers that leave the switch alone or turn it off and call
\* computeAllPositions without clearing anything.
RefreshOps == {"step", "handleSliderChange", "kalmanOff"}

\* The estimates returned by the calls of the handler that ended with
\* smoothing disabled.
UnsmoothedCalls == {i \in DOMAIN calls : ~calls[i].enabled}

\* What a handler that runs with smoothing disabled returns and leaves.
C20_Step ==
    /\ \A i \in DOMAIN calls' : \A j \in DOMAIN calls'[i].results :
           ~calls'[i].enabled =>
               /\ calls'[i].results[j].lat = calls'[i].results[j].rawLat
               /\ calls'[i].results[j].lng = calls'[i].results[j].rawLng
               /\ ~calls'[i].results[j].isSmoothed
    /\ (lastOp' \in RefreshOps /\ ~kalmanEnabled') => kalmanStates' = kalmanStates
    /\ (lastOp' = "onDataLoaded" /\ ~kalmanEnabled') => kalmanStates' = EmptyMap

\* C20: while smoothing is disabled, computeAllPositions returns for every
\* device lat = rawLat, lng = rawLng and isSmoothed = false, and neither
\* creates, changes nor removes a Kalman state; setKalmanEnabled(false)
\* leaves the state map as it is (a load empties it through clearCache).
C20_DisabledLeavesStates == [][C20_Step]_vars

\* Smoothing was turned off over stored states, and the refresh returned
\* an estimate of a device that has a state.
C20_Witness ==
    /\ lastOp = "kalmanOff"
    /\ UnsmoothedCalls # {}
    /\ \E j \in DOMAIN calls[1].results :
           calls[1].results[j].macHashed \in DOMAIN kalmanStates

\* ------------------------------------------------------------------------
\* Properties of the geo-projection (specification GeoSpec)
\* ------------------------------------------------------------------------

RoundTripped == fnOut # Null /\ "gps" \in DOMAIN fnOut

\* C19: for every reference point with cos(refLat) # 0, metersToGps of
\* gpsToMeters of a position gives the position back, to the precision of
\* the arithmetic (here one micro-degree).
C19_RoundTrip ==
    (RoundTripped /\ CosLat(fnIn.refLat) # 0) =>
        /\ IsFin(fnOut.gps.lat) /\ IsFin(fnOut.gps.lng)
        /\ Abs(fnOut.gps.lat - fnIn.lat) <= 1
        /\ Abs(fnOut.gps.lng - fnIn.lng) <= 1

\* A round trip of a position north-east of a reference point at 60 N.
C19_Witness ==
    /\ RoundTripped
    /\ fnIn.refLat = 60000000
    /\ fnIn.lat > fnIn.refLat /\ fnIn.lng > fnIn.refLng
    /\ fnOut.local.x > 0 /\ fnOut.local.y > 0
    /\ fnOut.local.x # fnOut.local.y

\* ------------------------------------------------------------------------
\* The live path: js/mqttHandler.js (sensor discovery, the message queue)
\* and the realtime buffer of js/app.js
\* ------------------------------------------------------------------------

\* The most MQTT messages received, and the latest time one is received.
MaxMessages == 3
MaxTime == 250

\* The granularity of time, ms.
TickMs == 250

\* setTimeout(..., 500) of schedulePositionComputation
DebounceMs == 500

\* REALTIME_TIME_WINDOW_MS
RealtimeWindowMs == 15000

LiveSensors == {SensorA, SensorB}

Coordinates(gps) == [lat |-> gps[1], lng |-> gps[2]]

\* The coordinates a user enters for a sensor: its position.
PositionOf(sensorId) ==
    IF sensorId = SensorA THEN Coordinates(GpsA) ELSE Coordinates(GpsB)

\* The devices parseMessage / handleRaspberryMessage extract from a
\* message: none, a reading whose distance is missing (the devices-array
\* format turns it into 0), readings of two devices.
Payloads ==
    { <<>>,
      <<Reading(DeviceD, DefaultRssi, 0)>>,
      <<Reading(DeviceD, 0 - 70, 4), Reading(DeviceE, 0 - 70, 2)>> }

\* The MqttHandler and App state a live handler starts from.
Live == [known |-> knownSensors, unassigned |-> unassignedSensors,
         queue |-> dataQueue, buffer |-> realtimeReadingsBuffer,
         timer |-> realtimeUpdateTimer, timers |-> timers,
         delivered |-> delivered]

\* A variant that arms a new timer without clearing the pending one.
schedulePositionComputation_NoClear(st, t) ==
    [st EXCEPT !.timers = @ \cup {[id |-> st.timer + 1,
                                   due |-> t + DebounceMs]},
               !.timer = st.timer + 1]

\* schedulePositionComputation at time t: clearTimeout of the timer armed
\* last, if any, then setTimeout, whose id is kept.  The browser numbers
\* its timeouts 1, 2, ...
schedulePositionComputation(st, t) ==
    [st EXCEPT !.timers = {x \in @ : x.id # st.timer}
                              \cup {[id |-> st.timer + 1,
                                     due |-> t + DebounceMs]},
               !.timer = st.timer + 1]

\* The reading handleRealtimeMessage buffers for a device of the entry.
BufferedReading(entry, device, t) ==
    [sensor_id |-> entry.device_key,
     distance |-> IF Truthy(device.distance) THEN device.distance ELSE 0,
     rssi |-> IF Truthy(device.rssi) THEN device.rssi ELSE DefaultRssi,
     sensor_lat |-> entry.gps[1],
     sensor_lng |-> entry.gps[2],
     timestamp |-> t]

\* realtimeReadingsBuffer after the reading of one device is pushed.
PushBuffered(buffer, mac, reading) ==
    [order |-> IF mac \in DOMAIN buffer.lists THEN buffer.order
               ELSE Append(buffer.order, mac),
     lists |-> MapSet(buffer.lists, mac,
                      IF mac \in DOMAIN buffer.lists
                      THEN Append(buffer.lists[mac], reading)
                      ELSE <<reading>>)]

RECURSIVE BufferDevices(_, _, _, _)
BufferDevices(buffer, entry, devices, t) ==
    IF devices = <<>> THEN buffer
    ELSE BufferDevices(PushBuffered(buffer, Head(devices).mac_hashed,
                                    BufferedReading(entry, Head(devices), t)),
                       entry, Tail(devices), t)

\* handleRealtimeMessage(entry) at time t: the readings of the entry are
\* buffered and the computation is scheduled, if the entry has readings.
handleRealtimeMessage(st, entry, t) ==
    IF Len(entry.devices) > 0
    THEN schedulePositionComputation(
             [st EXCEPT !.buffer = BufferDevices(@, entry, entry.devices, t)], t)
    ELSE st

\* onMessageCallback(entry), with a record of the call.
Deliver(st, entry, t) ==
    handleRealtimeMessage(
        [st EXCEPT !.delivered = Append(@, [entry |-> entry, at |-> t])],
        entry, t)

\* if (!knownSensors.has(sensorId)) { knownSensors.set(sensorId, null);
\* unassignedSensors.add(sensorId); onSensorDiscoveredCallback(...) }; the
\* callback of App shows the pending notification.  GpsStorage is not
\* read.
Discover(st, sensorId) ==
    IF sensorId \in DOMAIN st.known THEN st
    ELSE [st EXCEPT !.known = MapSet(@, sensorId, Null),
                    !.unassigned = @ \cup {sensorId}]

\* The parsed entry is delivered with the coordinates of its sensor, or
\* queued when the sensor has none.
DeliverOrQueue(st, sensorId, entry, t) ==
    IF st.known[sensorId] # Null
    THEN Deliver(st, [entry EXCEPT !.gps = <<st.known[sensorId].lat,
                                             st.known[sensorId].lng>>], t)
    ELSE [st EXCEPT !.queue = Append(@, [sensorId |-> sensorId, entry |-> entry])]

\* onMessageArrived / onProxyMessageReceived / handleRaspberryMessage for a
\* message of sensorId carrying the given devices.
onMessageArrived(st, sensorId, message, t) ==
    DeliverOrQueue(Discover(st, sensorId), sensorId,
                   [device_key |-> sensorId, timestamp |-> message.timestamp,
                    devices |-> message.devices, gps |-> Null], t)

RECURSIVE DeliverAll(_, _, _, _)
DeliverAll(st, pending, gps, t) ==
    IF pending = <<>> THEN st
    ELSE DeliverAll(Deliver(st, [Head(pending).entry EXCEPT !.gps = gps], t),
                    Tail(pending), gps, t)

\* A variant that delivers the whole queue, whatever the sensor.
assignSensorGps_FlushAll(st, sensorId, lat, lng, t) ==
    [state |-> DeliverAll([st EXCEPT !.known = MapSet(@, sensorId,
                                                     [lat |-> lat, lng |-> lng]),
                                     !.unassigned = @ \ {sensorId},
                                     !.queue = <<>>],
                          st.queue, <<lat, lng>>, t),
     returned |-> Len(st.queue)]

\* assignSensorGps(sensorId, lat, lng): the state afterwards and the
\* returned number of pending messages.
assignSensorGps(st, sensorId, lat, lng, t) ==
    [state |-> DeliverAll([st EXCEPT !.known = MapSet(@, sensorId,
                                                     [lat |-> lat, lng |-> lng]),
                                     !.unassigned = @ \ {sensorId},
                                     !.queue = SelectSeq(@, LAMBDA q :
                                                   q.sensorId # sensorId)],
                          SelectSeq(st.queue, LAMBDA q : q.sensorId = sensorId),
                          <<lat, lng>>, t),
     returned |-> Len(SelectSeq(st.queue, LAMBDA q : q.sensorId = sensorId))]

\* ---- js/app.js: computeRealtimePositions --------------------------------

\* bySensor after one reading: the reading replaces the one kept for its
\* sensor only if it is strictly later.
KeepLatest(bySensor, reading) ==
    IF reading.sensor_id \in DOMAIN bySensor.map
    THEN IF reading.timestamp > bySensor.map[reading.sensor_id].timestamp
         THEN [bySensor EXCEPT !.map = MapSet(@, reading.sensor_id, reading)]
         ELSE bySensor
    ELSE [order |-> Append(bySensor.order, reading.sensor_id),
          map |-> MapSet(bySensor.map, reading.sensor_id, reading)]

RECURSIVE LatestPerSensor(_, _)
LatestPerSensor(bySensor, readings) ==
    IF readings = <<>> THEN bySensor
    ELSE LatestPerSensor(KeepLatest(bySensor, Head(readings)), Tail(readings))

\* Array.from(bySensor.values()).map(r => ({ sensor_id, distance, rssi,
\* sensor_lat, sensor_lng }))
RealtimeObservations(bySensor) ==
    [i \in 1..Len(bySensor.order) |->
        [sensor_id |-> bySensor.map[bySensor.order[i]].sensor_id,
         distance |-> bySensor.map[bySensor.order[i]].distance,
         rssi |-> bySensor.map[bySensor.order[i]].rssi,
         sensor_lat |-> bySensor.map[bySensor.order[i]].sensor_lat,
         sensor_lng |-> bySensor.map[bySensor.order[i]].sensor_lng]]

\* { macHashed: macHashed, ...result, sensorCount: observations.length }
RealtimeDevice(macHashed, result, observations) ==
    [k \in DOMAIN result \cup {"macHashed", "sensorCount"} |->
        IF k = "macHashed" THEN macHashed
        ELSE IF k = "sensorCount" THEN Len(observations)
        ELSE result[k]]

\* The guard on the result of trilaterate and the push.
RealtimePush(acc, macHashed, observations, result) ==
    IF Emitted(result)
    THEN [acc EXCEPT !.newDevices =
              Append(@, RealtimeDevice(macHashed, result, observations))]
    ELSE acc

RealtimeLaterate(acc, macHashed, observations) ==
    RealtimePush(acc, macHashed, observations, trilaterate(observations))

\* The body of realtimeReadingsBuffer.forEach for one device, given its
\* readings inside the window.
RealtimeDeviceStep(acc, macHashed, recentReadings) ==
    IF Len(recentReadings) = 0
    THEN [acc EXCEPT !.buffer =
              [order |-> SelectSeq(acc.buffer.order, LAMBDA m : m # macHashed),
               lists |-> [m \in DOMAIN acc.buffer.lists \ {macHashed} |->
                             acc.buffer.lists[m]]]]
    ELSE RealtimeLaterate(
             [acc EXCEPT !.buffer.lists = MapSet(@, macHashed, recentReadings)],
             macHashed,
             RealtimeObservations(
                 LatestPerSensor([order |-> <<>>, map |-> EmptyMap],
                                 recentReadings)))

RECURSIVE ForEachBuffered(_, _, _)
ForEachBuffered(acc, order, cutoffTime) ==
    IF order = <<>> THEN acc
    ELSE ForEachBuffered(
             RealtimeDeviceStep(acc, Head(order),
                 SelectSeq(acc.buffer.lists[Head(order)],
                           LAMBDA r : r.timestamp >= cutoffTime)),
             Tail(order), cutoffTime)

\* computeRealtimePositions() at time t: the buffer afterwards and the
\* devices computed.
computeRealtimePositions(buffer, t) ==
    ForEachBuffered([buffer |-> buffer, newDevices |-> <<>>],
                    buffer.order, t - RealtimeWindowMs)

\* ---- The live handlers as steps -----------------------------------------

\* On the live path fnIn is the sensor the last handler was called for and
\* fnOut the number it returned; a handler without either leaves the empty
\* id and 0.
NoSensor == <<>>

\* The state of a handler written back.
LiveCommit(st, op, args, returned) ==
    /\ knownSensors' = st.known
    /\ unassignedSensors' = st.unassigned
    /\ dataQueue' = st.queue
    /\ realtimeReadingsBuffer' = st.buffer
    /\ realtimeUpdateTimer' = st.timer
    /\ timers' = st.timers
    /\ delivered' = st.delivered
    /\ lastOp' = op
    /\ fnIn' = args
    /\ fnOut' = returned

\* What the live path never touches.
replayVars == <<TIME_WINDOW_MS, timestamps, dataByTimestamp, resultCache,
                kalmanEnabled, kalmanStates, tcTimestamps, currentIndex,
                isPlaying, calls, lastQuery, opCount>>

\* The application connected to the broker; GpsStorage holds what earlier
\* sessions persisted.
LiveInit ==
    /\ AppInit
    /\ fnIn = NoSensor
    /\ fnOut = 0

\* An MQTT message of a sensor arrives.
MessageArrived ==
    /\ arrived < MaxMessages
    /\ now <= MaxTime
    /\ \E sensorId \in LiveSensors, devices \in Payloads :
          LiveCommit(onMessageArrived(Live, sensorId,
                                      [timestamp |-> arrived + 1,
                                       devices |-> devices], now),
                     "onMessageArrived", sensorId, 0)
    /\ arrived' = arrived + 1
    /\ UNCHANGED <<replayVars, currentDevices, gpsStorage, now, runs>>

\* MqttHandler.assignSensorGps(sensorId, lat, lng) is called for a sensor,
\* as saveGpsCoordinates does for the sensors of the dialog.
AssignSensorGps ==
    /\ \E sensorId \in LiveSensors :
          LiveCommit(assignSensorGps(Live, sensorId, PositionOf(sensorId).lat,
                                     PositionOf(sensorId).lng, now).state,
                     "assignSensorGps", sensorId,
                     assignSensorGps(Live, sensorId, PositionOf(sensorId).lat,
                                     PositionOf(sensorId).lng, now).returned)
    /\ UNCHANGED <<replayVars, currentDevices, gpsStorage, now, arrived, runs>>

\* A file with the coordinates of one sensor is imported into GpsStorage
\* (merge).
ImportGpsCoordinates ==
    /\ gpsStorage' = MapSet(gpsStorage, SensorA, PositionOf(SensorA))
    /\ gpsStorage' # gpsStorage
    /\ lastOp' = "importFromJson"
    /\ fnIn' = NoSensor
    /\ fnOut' = 0
    /\ UNCHANGED <<replayVars, currentDevices, mqttVars, realtimeReadingsBuffer,
                   realtimeUpdateTimer, timers, now, arrived, delivered, runs>>

\* A pending timeout is due: computeRealtimePositions runs.
RealtimeTimerFires ==
    \E x \in timers :
        /\ x.due <= now
        /\ timers' = timers \ {x}
        /\ LET out == computeRealtimePositions(realtimeReadingsBuffer, now)
           IN  /\ realtimeReadingsBuffer' = out.buffer
               /\ currentDevices' = IF Len(out.newDevices) > 0 THEN out.newDevices
                                    ELSE currentDevices
               /\ runs' = Append(runs, [at |-> now, timer |-> x.id,
                                        seen |-> Len(delivered),
                                        newDevices |-> out.newDevices])
        /\ lastOp' = "computeRealtimePositions"
        /\ fnIn' = NoSensor
        /\ fnOut' = 0
        /\ UNCHANGED <<replayVars, mqttVars, gpsStorage, realtimeUpdateTimer,
                       now, arrived, delivered>>

\* The earliest due time of a pending timeout after t, or t + TickMs.
NextInstant(t, pending) ==
    IF \E x \in pending : x.due < t + TickMs
    THEN CHOOSE d \in {x.due : x \in pending} :
             \A x \in pending : d <= x.due
    ELSE t + TickMs

\* Time passes, up to the next due timeout; a due timeout runs first.
TimePasses ==
    /\ \A x \in timers : x.due > now
    /\ now <= MaxTime \/ timers # {}
    /\ now' = NextInstant(now, timers)
    /\ lastOp' = "timePasses"
    /\ fnIn' = NoSensor
    /\ fnOut' = 0
    /\ UNCHANGED <<replayVars, currentDevices, mqttVars, gpsStorage,
                   realtimeReadingsBuffer, realtimeUpdateTimer, timers, arrived,
                   delivered, runs>>

LiveNext ==
    \/ MessageArrived
    \/ AssignSensorGps
    \/ ImportGpsCoordinates
    \/ RealtimeTimerFires
    \/ TimePasses

LiveSpec == LiveInit /\ [][LiveNext]_vars

\* A due timeout leaves the browser's list: of the steps of LiveNext only
\* RealtimeTimerFires is such a step.
DueTimerRuns ==
    \E x \in timers : x.due <= now /\ timers' = timers \ {x}

\* The browser runs a timeout that is due, and time does not stand still.
FairLiveSpec ==
    /\ LiveSpec
    /\ WF_timers(DueTimerRuns)
    /\ WF_now(TimePasses)

\* ------------------------------------------------------------------------
\* Properties of the aggregator's choice among repeated readings
\* ------------------------------------------------------------------------

\* The times of the stored readings of a (sensor, device) pair inside the
\* window of query q.
PairTimes(sensor, mac, q) ==
    {DateMs(q.timestamps[p[1]]) : p \in PairReadings(sensor, mac, q)}

Latest(S) == CHOOSE t \in S : \A u \in S : u <= t
Earliest(S) == CHOOSE t \in S : \A u \in S : t <= u

\* The observations query q returns for the pair.
ReturnedFor(sensor, mac, q) ==
    IF mac \in DOMAIN q.devices.lists
    THEN {o \in Range(q.devices.lists[mac]) : o.sensor_id = sensor}
    ELSE {}

\* C21 (as stated): for each (sensor, device) pair with several readings
\* inside the window of a query, the observation returned for the pair is
\* the reading with the latest timestamp inside the window.
C21_MostRecentReading ==
    \A q \in Queries : \A sensor \in Sensors : \A mac \in Devices :
        Cardinality(PairReadings(sensor, mac, q)) > 1
        => \A o \in ReturnedFor(sensor, mac, q) :
              DateMs(o.original_timestamp) = Latest(PairTimes(sensor, mac, q))

\* C21 (amended): for each (sensor, device) pair with several readings
\* inside the window of a query, exactly one observation is returned for
\* the pair and it is the reading with the earliest timestamp inside the
\* window: its timestamp is the earliest, and its distance and rssi are
\* those of a stored reading of the pair at that timestamp.
C21_EarliestReading ==
    \A q \in Queries : \A sensor \in Sensors : \A mac \in Devices :
        Cardinality(PairReadings(sensor, mac, q)) > 1
        => /\ Cardinality(ReturnedFor(sensor, mac, q)) = 1
           /\ \A o \in ReturnedFor(sensor, mac, q) :
                /\ DateMs(o.original_timestamp)
                      = Earliest(PairTimes(sensor, mac, q))
                /\ \E p \in PairReadings(sensor, mac, q) :
                    LET entry == q.byTs[q.timestamps[p[1]]][p[2]]
                    IN  /\ q.timestamps[p[1]] = o.original_timestamp
                        /\ entry.devices[p[3]].distance = o.distance
                        /\ entry.devices[p[3]].rssi = o.rssi

\* A query whose window holds readings of one pair taken at two different
\* times with different distances, answered with the earlier one.
C21_Witness ==
    \E q \in Queries : \E sensor \in Sensors : \E mac \in Devices :
        /\ Cardinality(PairTimes(sensor, mac, q)) > 1
        /\ \E o \in ReturnedFor(sensor, mac, q) :
            /\ DateMs(o.original_timestamp) < Latest(PairTimes(sensor, mac, q))
            /\ \E p \in PairReadings(sensor, mac, q) :
                q.byTs[q.timestamps[p[1]]][p[2]].devices[p[3]].distance # o.distance

\* The least distance in time between the target of query q and a stored
\* reading of the pair inside the window.
ClosestOffset(sensor, mac, q) ==
    Earliest({Abs(t - DateMs(q.timestamp)) : t \in PairTimes(sensor, mac, q)})

\* C22: for each sensor and device, the reading a query uses is the one
\* whose timestamp is closest in time to the target timestamp among that
\* sensor's readings of the device inside the window.
C22_ClosestReading ==
    \A q \in Queries : \A sensor \in Sensors : \A mac \in Devices :
        PairReadings(sensor, mac, q) # {}
        => \A o \in ReturnedFor(sensor, mac, q) :
              Abs(o.time_offset_ms) = ClosestOffset(sensor, mac, q)

\* ------------------------------------------------------------------------
\* Properties of the order and the number of smoothing steps
\* ------------------------------------------------------------------------

\* Call c ran applyKalmanFilter for the device: smoothing was on and the
\* device had a result that passed the guard.
Touched(c, mac) ==
    c.enabled /\ \E j \in DOMAIN c.results : c.results[j].macHashed = mac

\* Call c stepped (predict and update) a state the device already had.
Stepped(c, mac) == Touched(c, mac) /\ mac \in c.statesBefore

Later(c, d) == DateMs(c.timestamp) > DateMs(d.timestamp)

\* Each call of the handler that steps the state of a device comes with a
\* later query timestamp than the call before it, of this handler or the
\* last one of the handler before, if that one ran the filter for the device.
C24_Step ==
    \A i \in DOMAIN calls' : \A mac \in Devices :
        Stepped(calls'[i], mac)
        => /\ (i > 1 /\ Touched(calls'[i - 1], mac))
                => Later(calls'[i], calls'[i - 1])
           /\ (i = 1 /\ calls # <<>> /\ Touched(calls[Len(calls)], mac))
                => Later(calls'[i], calls[Len(calls)])

\* C24: between two resets of the Kalman states, the query timestamps at
\* which the Kalman state of a device is stepped are strictly increasing,
\* under every sequence of step(+1/-1), slider changes, playback frames
\* with the loop back to the first timestamp, loads and toggle refreshes.
C24_StepsInTimeOrder == [][C24_Step]_vars

\* The handlers that call computeAllPositions once on the states they find.
QueryOps == {"step", "handleSliderChange", "animationLoop"}

\* The estimate call c returned for the device.
EstimateOf(c, mac) ==
    c.results[CHOOSE j \in DOMAIN c.results : c.results[j].macHashed = mac]

\* The state a first filter call leaves for estimate e: the raw position
\* in a frame anchored at the raw position itself, at rest.
CreatedAt(e, measured) ==
    createKalmanState(measured.x, measured.y)
        @@ [refLat |-> e.rawLat, refLng |-> e.rawLng]
CreatedBy(e) ==
    CreatedAt(e, gpsToMeters(e.rawLat, e.rawLng, e.rawLat, e.rawLng))

\* The state one predict with dt = 1 and one update leave.
OneStepWith(state, updated) ==
    [x |-> updated.x, P |-> updated.P,
     refLat |-> state.refLat, refLng |-> state.refLng]
OneStepAt(state, quality, m) ==
    OneStepWith(state, kalmanUpdate(kalmanPredict(state, Unit), m.x, m.y,
                                    EffectiveNoise(quality)))
OneStep(state, e) ==
    OneStepAt(state, QualityArg(e),
              gpsToMeters(e.rawLat, e.rawLng, state.refLat, state.refLng))

\* What one call with smoothing on makes of the state of each device.
AdvancedOnce(before, after, c) ==
    \A mac \in Devices :
        IF Touched(c, mac)
        THEN /\ mac \in DOMAIN after
             /\ after[mac] = IF mac \in DOMAIN before
                             THEN OneStep(before[mac], EstimateOf(c, mac))
                             ELSE CreatedBy(EstimateOf(c, mac))
        ELSE /\ mac \in DOMAIN after <=> mac \in DOMAIN before
             /\ mac \in DOMAIN before => after[mac] = before[mac]

\* The states the first render after a load leaves.
RenderedOnce(c) ==
    [mac \in {m \in Devices : Touched(c, m)} |-> CreatedBy(EstimateOf(c, mac))]

C25_Step ==
    /\ (lastOp' \in QueryOps /\ calls'[1].enabled)
          => AdvancedOnce(kalmanStates, kalmanStates', calls'[1])
    /\ (lastOp' = "kalmanOn" /\ calls' # <<>>)
          => AdvancedOnce(EmptyMap, kalmanStates', calls'[1])
    /\ (lastOp' = "onDataLoaded" /\ calls'[1].enabled)
          => AdvancedOnce(RenderedOnce(calls'[1]), kalmanStates', calls'[2])

\* C25: each computeAllPositions call with smoothing enabled advances the
\* Kalman state of every device with a valid raw estimate in that query by
\* exactly one predict-plus-update step with dt = 1, or creates the state
\* if the device has none, whatever the distance between this and the
\* previous query timestamp and whether the raw result was computed or
\* taken from the cache; the state of a device without an estimate in the
\* query is left as it is.
C25_OneStepPerCall == [][C25_Step]_vars

\* A move back to a timestamp queried before: the state of a device is
\* stepped with a raw result taken from the cache.
C25_Witness ==
    /\ lastOp \in QueryOps
    /\ calls[1].enabled
    /\ \E mac \in Devices :
        /\ Stepped(calls[1], mac)
        /\ getCacheKey(calls[1].timestamp, mac) \in calls[1].cachedBefore
        /\ kalmanStates[mac].x # <<0, 0, 0, 0>>

\* ------------------------------------------------------------------------
\* Independence of the Kalman states of different devices
\* ------------------------------------------------------------------------

\* The state map with the entry of one device only.
Alone(states, mac) ==
    [m \in (DOMAIN states) \cap {mac} |-> states[m]]

\* The filter call for estimate e run on the state of its device alone.
OwnOutcome(states, e) ==
    applyKalmanFilter(Alone(states, e.macHashed), e.macHashed,
                      e.rawLat, e.rawLng, QualityArg(e))

\* The estimate and the state left for its device are those of out.
AgreesWith(e, after, out) ==
    /\ e.macHashed \in DOMAIN after
    /\ after[e.macHashed] = out.states[e.macHashed]
    /\ IF e.isSmoothed THEN e.lat = out.lat /\ e.lng = out.lng
       ELSE IsNaN(out.lat) \/ IsNaN(out.lng)

\* One call with smoothing on: each device in the results gets what its
\* own state and raw estimate give, every other state is left as it was.
OwnStateOnly(before, after, c) ==
    \A mac \in Devices :
        IF Touched(c, mac)
        THEN AgreesWith(EstimateOf(c, mac), after,
                        OwnOutcome(before, EstimateOf(c, mac)))
        ELSE /\ mac \in DOMAIN after <=> mac \in DOMAIN before
             /\ mac \in DOMAIN before => after[mac] = before[mac]

C26_Step ==
    /\ (lastOp' \in QueryOps /\ calls'[1].enabled)
          => OwnStateOnly(kalmanStates, kalmanStates', calls'[1])
    /\ (lastOp' = "kalmanOn" /\ calls' # <<>>)
          => OwnStateOnly(EmptyMap, kalmanStates', calls'[1])

\* C26: Kalman states of different devices are independent: the state a
\* call leaves for a device and the smoothed position it returns for it
\* are those of the filter run on the device's own previous state and own
\* raw estimate and variance alone, whichever other devices are in the
\* query or have states, and the state (position, velocity, covariance,
\* anchor) of every device the call does not estimate is unchanged.
C26_StatesIndependent == [][C26_Step]_vars

\* A call that steps the states of two devices, which differ afterwards.
C26_Witness ==
    /\ lastOp \in QueryOps
    /\ calls[1].enabled
    /\ Stepped(calls[1], DeviceD) /\ Stepped(calls[1], DeviceE)
    /\ EstimateOf(calls[1], DeviceD).isSmoothed
    /\ EstimateOf(calls[1], DeviceE).isSmoothed
    /\ kalmanStates[DeviceD] # kalmanStates[DeviceE]

\* ------------------------------------------------------------------------
\* The result cache and the time window
\* ------------------------------------------------------------------------

\* What the solver gives for the observations call c got for the device.
SolvedNow(c, mac) == trilaterate(c.devices.lists[mac])

\* Call c returns the device exactly when that result passes the guard,
\* and with its raw fields.
ReturnsSolved(c, mac, solved) ==
    IF Emitted(solved)
    THEN Touched([c EXCEPT !.enabled = TRUE], mac)
         /\ RawFields(EstimateOf(c, mac)) = ResultFields(solved)
    ELSE ~Touched([c EXCEPT !.enabled = TRUE], mac)

\* C27: in every reachable state, also after setTimeWindow changed the
\* half-width and for timestamps queried before the change, the raw result
\* computeAllPositions returned for (timestamp, device) is trilaterate
\* applied to the observations getDevicesInTimeWindow returned for the
\* device in that call, i.e. those inside the current window.
C27_ResultsFollowWindow ==
    \A i \in DOMAIN calls : \A mac \in Range(calls[i].devices.order) :
        ReturnsSolved(calls[i], mac, SolvedNow(calls[i], mac))

\* ------------------------------------------------------------------------
\* The live path: discovery, the queue, the debounce, sensorCount
\* ------------------------------------------------------------------------

\* The entry the message callback got last.
LastDelivered(log) == log[Len(log)].entry

\* The step is onMessageArrived for a sensor MqttHandler had not seen.
DiscoveryOf(sensorId) ==
    /\ lastOp' = "onMessageArrived"
    /\ fnIn' = sensorId
    /\ sensorId \notin DOMAIN knownSensors

\* The message of the step went to the callback with the coordinates.
DeliveredWith(coordinates) ==
    /\ Len(delivered') = Len(delivered) + 1
    /\ LastDelivered(delivered').timestamp = arrived'
    /\ LastDelivered(delivered').gps = <<coordinates.lat, coordinates.lng>>

C23_Step ==
    \A sensorId \in LiveSensors :
        DiscoveryOf(sensorId) =>
            IF sensorId \in DOMAIN gpsStorage
            THEN /\ sensorId \notin unassignedSensors'
                 /\ knownSensors'[sensorId] = gpsStorage[sensorId]
                 /\ DeliveredWith(gpsStorage[sensorId])
                 /\ dataQueue' = dataQueue
            ELSE sensorId \in unassignedSensors'

\* C23: when a message arrives from a sensor not seen before and
\* GpsStorage holds coordinates for its id, the coordinates are assigned
\* automatically: the sensor does not become unassigned and the message
\* goes to the callback with those coordinates, without user input; only
\* a sensor without stored coordinates becomes unassigned.
C23_StoredGpsAssigned == [][C23_Step]_vars

\* The sensor has coordinates in MqttHandler.
HasGps(known, sensorId) ==
    sensorId \in DOMAIN known /\ known[sensorId] # Null

\* The queued entries of the sensor, oldest first.
QueuedOf(queue, sensorId) ==
    SelectSeq(queue, LAMBDA q : q.sensorId = sensorId)

\* How often message n is in the queue and in the deliveries.
TimesQueued(queue, n) ==
    Cardinality({i \in DOMAIN queue : queue[i].entry.timestamp = n})

TimesDelivered(log, n) ==
    Cardinality({i \in DOMAIN log : log[i].entry.timestamp = n})

\* A message of a sensor without coordinates is appended to the queue and
\* not delivered; one of a sensor with coordinates is delivered at once.
ArrivalStep(sensorId) ==
    IF HasGps(knownSensors, sensorId)
    THEN /\ DeliveredWith(knownSensors[sensorId])
         /\ SubSeq(delivered', 1, Len(delivered)) = delivered
         /\ dataQueue' = dataQueue
    ELSE /\ delivered' = delivered
         /\ Len(dataQueue') = Len(dataQueue) + 1
         /\ SubSeq(dataQueue', 1, Len(dataQueue)) = dataQueue
         /\ dataQueue'[Len(dataQueue')].sensorId = sensorId
         /\ dataQueue'[Len(dataQueue')].entry.timestamp = arrived'

\* assignSensorGps delivers the queued messages of the sensor, oldest
\* first and with the coordinates assigned, returns their number and
\* leaves the others queued.
AssignStep(sensorId) ==
    /\ HasGps(knownSensors', sensorId)
    /\ fnOut' = Len(QueuedOf(dataQueue, sensorId))
    /\ Len(delivered') = Len(delivered) + fnOut'
    /\ SubSeq(delivered', 1, Len(delivered)) = delivered
    /\ \A k \in 1..fnOut' :
          delivered'[Len(delivered) + k].entry =
              [QueuedOf(dataQueue, sensorId)[k].entry EXCEPT
                  !.gps = <<knownSensors'[sensorId].lat,
                            knownSensors'[sensorId].lng>>]
    /\ dataQueue' = SelectSeq(dataQueue, LAMBDA q : q.sensorId # sensorId)

\* Every message received is either queued once or delivered once, and
\* only sensors without coordinates have queued messages.
QueueSound(known, queue, log, received) ==
    /\ \A n \in 1..received :
          TimesQueued(queue, n) + TimesDelivered(log, n) = 1
    /\ \A i \in DOMAIN queue : ~HasGps(known, queue[i].sensorId)

C28_Step ==
    /\ \A sensorId \in LiveSensors :
          /\ (lastOp' = "onMessageArrived" /\ fnIn' = sensorId)
                => ArrivalStep(sensorId)
          /\ (lastOp' = "assignSensorGps" /\ fnIn' = sensorId)
                => AssignStep(sensorId)
    /\ QueueSound(knownSensors', dataQueue', delivered', arrived')

HasReadings(entry) == Len(entry.devices) > 0

\* The deliveries of the step that carry readings.
NewReadings ==
    {k \in (Len(delivered) + 1)..Len(delivered') :
        HasReadings(delivered'[k].entry)}

\* A delivery with readings cancels what was pending and arms one timer,
\* due 500 ms later; any other delivery leaves the timers alone.
ArmsAfresh ==
    IF NewReadings # {}
    THEN /\ Cardinality(timers') = 1
         /\ \A x \in timers' : x.due = now + DebounceMs /\ x \notin timers
    ELSE Len(delivered') > Len(delivered) => timers' = timers

\* A run finds every delivery with readings at least 500 ms old, and at
\* least one that no earlier run has seen.
RunsAfterQuiet ==
    Len(runs') > Len(runs) =>
        /\ Len(runs') = Len(runs) + 1
        /\ \A k \in DOMAIN delivered :
              HasReadings(delivered[k].entry)
                  => delivered[k].at + DebounceMs <= now
        /\ \E k \in DOMAIN delivered :
              /\ HasReadings(delivered[k].entry)
              /\ \A i \in DOMAIN runs : runs[i].seen < k

C29_Step ==
    /\ Cardinality(timers') <= 1
    /\ ArmsAfresh
    /\ RunsAfterQuiet

\* Delivery k carried readings and no run has come after it.
AwaitsRun(k) ==
    /\ Len(delivered) >= k
    /\ HasReadings(delivered[k].entry)
    /\ \A i \in DOMAIN runs : runs[i].seen < k

\* C29: realtime position computation is debounced: at most one timer is
\* pending at any time, each realtime message carrying device readings
\* cancels the pending timer and arms a new one, computeRealtimePositions
\* runs only when 500 ms have passed with no such message, once per
\* burst, and after any buffered reading a run eventually happens once
\* messages stop arriving less than 500 ms apart.
C29_Debounced ==
    /\ [][C29_Step]_<<timers, delivered, runs>>
    /\ \A k \in 1..MaxMessages : AwaitsRun(k) ~> ~AwaitsRun(k)

\* One run, 500 ms after the second of two messages with readings that
\* came 250 ms apart.
C29_Witness ==
    /\ Len(runs) = 1
    /\ Len(delivered) = 2
    /\ HasReadings(delivered[1].entry) /\ HasReadings(delivered[2].entry)
    /\ delivered[2].at = delivered[1].at + TickMs
    /\ runs[1].at = delivered[2].at + DebounceMs
    /\ timers = {}

\* The estimate counts the observations that passed the distance filter,
\* and its quality level is the one of that count.
CountAgrees(e) ==
    /\ \A i \in DOMAIN e.observations :
          e.observations[i].distance > 0
          /\ e.observations[i].distance < Fx(MaxRange)
    /\ e.sensorCount = Len(e.observations)
    /\ e.sensorCount >= 1
    /\ e.qualityLevel = QualityFor(e.sensorCount)

\* C30: in every device estimate handed to the renderer, by
\* computeAllPositions and by computeRealtimePositions, sensorCount is the
\* number of observations that passed the distance filter and agrees with
\* qualityLevel: 1 exactly when low, 2 exactly when medium, 3 or more
\* exactly when high.
C30_SensorCountAgrees ==
    \A i \in DOMAIN currentDevices : CountAgrees(currentDevices[i])

====
